---- MODULE Spec2Model ----
(***************************************************************************)
(* gopotency: the idempotency coordinator (Manager) over the in-memory     *)
(* storage backend.                                                        *)
(*                                                                         *)
(* Time is a discrete clock `now`; one unit stands for an arbitrary        *)
(* duration, and the two configured durations (record TTL, lock timeout)   *)
(* keep their order (lock timeout < record TTL, as 5m < 24h).              *)
(* Go maps are functions whose DOMAIN is the set of present keys.          *)
(* A nil pointer is the empty sequence Nil, a non-nil pointer to v is <<v>>.*)
(***************************************************************************)
EXTENDS Integers, Sequences, FiniteSets, TLC

\* ------------------------------------------------------------------ bounds
MaxTime == 3
NumCallers == 2

\* --------------------------------------------------- configuration values
\* Config.TTL and Config.LockTimeout after setDefaults, in clock units.
TTL == 2
LockTimeout == 1

Callers == 1..NumCallers
Keys == {"k1"}
Bodies == {"", "b1", "b2"}
Times == 0..MaxTime

Nil == <<>>
Some(v) == <<v>>
ZeroTime == -1

\* RecordStatus constants (types.go)
StatusPending == "pending"
StatusCompleted == "completed"
StatusFailed == "failed"

\* errors (errors.go)
NoErr == "nil"
ErrRequestInProgress == "ErrRequestInProgress"
ErrRequestMismatch == "ErrRequestMismatch"
ErrStorageOperation == "ErrStorageOperation"
ErrNoIdempotencyKey == "ErrNoIdempotencyKey"
\* NewStorageError that drops the operation's name.
NewStorageError_NoOperation(operation, err) == "StorageError:"
NewStorageError(operation, err) == "StorageError:" \o operation

\* Request values handed to the Manager: the key may be empty.
Requests == [IdempotencyKey : Keys \cup {""}, Body : Bodies]
\* The requests of the protocol's callers: they carry a key (the middleware
\* took it from the header) and a body.
KeyedRequests == {r \in Requests : r.IdempotencyKey # "" /\ r.Body # ""}

\* Response values a handler can produce.
Responses ==
    { [StatusCode |-> 200, Headers |-> "h1", Body |-> "B",  ContentType |-> "json"],
      [StatusCode |-> 201, Headers |-> "h2", Body |-> "B2", ContentType |-> "text"] }

\* Response.ToCachedResponse that forgets the content type.
ToCachedResponse_NoContentType(r) ==
    [StatusCode  |-> r.StatusCode,
     Headers     |-> r.Headers,
     Body        |-> r.Body,
     ContentType |-> ""]

\* Response.ToCachedResponse: field-by-field copy.
ToCachedResponse(r) ==
    [StatusCode  |-> r.StatusCode,
     Headers     |-> r.Headers,
     Body        |-> r.Body,
     ContentType |-> r.ContentType]

\* ------------------------------------------------------------- Go map ops
MapPut(m, k, v) == [x \in (DOMAIN m) \cup {k} |-> IF x = k THEN v ELSE m[x]]
MapDel(m, k) == [x \in (DOMAIN m) \ {k} |-> m[x]]
EmptyMap == [x \in {} |-> 0]

VARIABLES
    now,        \* the clock read by time.Now()
    records,    \* memory.Storage.records : key -> Record
    locks,      \* memory.Storage.locks   : key -> lock expiry
    hasher,     \* Config.RequestHasher: "none" (nil) or "body" (hash.BodyHasher)
    flaky,      \* TRUE: the backend's calls may fail with an I/O error
    pc,         \* per caller: position in the request protocol
    creq,       \* per caller: the request being handled
    lockExp,    \* per caller: expiry of the lock its own Lock acquired
    execs,      \* per key: executions of the protected operation in the key's window
    race,       \* per key: the Lock results since the key was last fresh
    last        \* the Manager call just made, if the last step was one: its error

vars == <<now, records, locks, hasher, flaky, pc, creq, lockExp, execs, race, last>>

\* ------------------------------------------------------------ hash/hasher
\* SHA-256 + hex, taken as injective.
Sha256Hex(s) == "sha256(" \o s \o ")"

\* bodyHasher.Hash
BodyHasherHash(req) == IF req.Body = "" THEN "" ELSE Sha256Hex(req.Body)

\* m.config.RequestHasher.Hash(req), for the configured hasher
RequestHash(req) == BodyHasherHash(req)

\* ------------------------------------------------- storage/memory/memory.go
\* Storage.Get without the expiry test.
MemGet_NoExpiry(recs, key, t) ==
    IF key \notin DOMAIN recs
    THEN [record |-> Nil, err |-> NewStorageError("get", ErrStorageOperation)]
    ELSE [record |-> Some(recs[key]), err |-> NoErr]

\* Storage.Get
MemGet(recs, key, t) ==
    IF key \notin DOMAIN recs
    THEN [record |-> Nil, err |-> NewStorageError("get", ErrStorageOperation)]
    ELSE IF t > recs[key].ExpiresAt
    THEN [record |-> Nil, err |-> NewStorageError("get", ErrStorageOperation)]
    ELSE [record |-> Some(recs[key]), err |-> NoErr]

\* Storage.Set that keeps a record already stored under the key.
MemSet_KeepsExisting(recs, record, ttl, t) ==
    LET r == IF record.ExpiresAt = ZeroTime
             THEN [record EXCEPT !.ExpiresAt = t + ttl]
             ELSE record
    IN  IF r.Key \in DOMAIN recs
        THEN [records |-> recs, err |-> NoErr]
        ELSE [records |-> MapPut(recs, r.Key, r), err |-> NoErr]

\* Storage.Set
MemSet(recs, record, ttl, t) ==
    LET r == IF record.ExpiresAt = ZeroTime
             THEN [record EXCEPT !.ExpiresAt = t + ttl]
             ELSE record
    IN  [records |-> MapPut(recs, r.Key, r), err |-> NoErr]

\* Storage.Delete that removes the record only.
MemDelete_KeepsLock(recs, lks, key) ==
    [records |-> MapDel(recs, key), locks |-> lks, err |-> NoErr]

\* Storage.Delete
MemDelete(recs, lks, key) ==
    [records |-> MapDel(recs, key), locks |-> MapDel(lks, key), err |-> NoErr]

\* Storage.Exists without the expiry test.
MemExists_NoExpiry(recs, key, t) == key \in DOMAIN recs

\* Storage.Exists
MemExists(recs, key, t) ==
    IF key \notin DOMAIN recs THEN FALSE
    ELSE IF t > recs[key].ExpiresAt THEN FALSE
    ELSE TRUE

\* Storage.TryLock that never looks at the lock already in the map.
MemTryLock_NoCheck(lks, key, ttl, t) ==
    [locks |-> MapPut(lks, key, t + ttl), ok |-> TRUE, err |-> NoErr]

\* Storage.TryLock that refuses a held lock but renews its expiry.
MemTryLock_Extends(lks, key, ttl, t) ==
    IF key \in DOMAIN lks /\ t < lks[key]
    THEN [locks |-> MapPut(lks, key, t + ttl), ok |-> FALSE, err |-> NoErr]
    ELSE [locks |-> MapPut(lks, key, t + ttl), ok |-> TRUE, err |-> NoErr]

\* Storage.TryLock that still refuses at the expiry instant itself.
MemTryLock_BlocksAtExpiry(lks, key, ttl, t) ==
    IF key \in DOMAIN lks /\ t <= lks[key]
    THEN [locks |-> lks, ok |-> FALSE, err |-> NoErr]
    ELSE [locks |-> MapPut(lks, key, t + ttl), ok |-> TRUE, err |-> NoErr]

\* Storage.TryLock
MemTryLock(lks, key, ttl, t) ==
    IF key \in DOMAIN lks /\ t < lks[key]
    THEN [locks |-> lks, ok |-> FALSE, err |-> NoErr]
    ELSE [locks |-> MapPut(lks, key, t + ttl), ok |-> TRUE, err |-> NoErr]

\* Storage.Unlock that reports a missing lock as an error.
MemUnlock_ErrIfAbsent(lks, key) ==
    IF key \in DOMAIN lks
    THEN [locks |-> MapDel(lks, key), err |-> NoErr]
    ELSE [locks |-> lks, err |-> "lock not found"]

\* Storage.Unlock
MemUnlock(lks, key) == [locks |-> MapDel(lks, key), err |-> NoErr]

\* ------------------------------------------ the Storage the Manager calls
\* Each call is the in-memory backend's, or (fail = TRUE, flaky backend only)
\* an I/O error that leaves the stored state as it was.
IOError == "io"

StorageGet(recs, key, t, fail) ==
    IF fail THEN [record |-> Nil, err |-> NewStorageError("get", IOError)]
    ELSE MemGet(recs, key, t)

StorageSet(recs, record, ttl, t, fail) ==
    IF fail THEN [records |-> recs, err |-> NewStorageError("set", IOError)]
    ELSE MemSet(recs, record, ttl, t)

StorageTryLock(lks, key, ttl, t, fail) ==
    IF fail THEN [locks |-> lks, ok |-> FALSE, err |-> NewStorageError("trylock", IOError)]
    ELSE MemTryLock(lks, key, ttl, t)

StorageUnlock(lks, key, fail) ==
    IF fail THEN [locks |-> lks, err |-> NewStorageError("unlock", IOError)]
    ELSE MemUnlock(lks, key)

\* ------------------------------------------------------------ Manager
\* Manager.Check with the status switch ahead of the fingerprint comparison.
CheckOp_StatusFirst(recs, req, t, failGet) ==
    IF req.IdempotencyKey = ""
    THEN [resp |-> Nil, err |-> NoErr, hooks |-> {}]
    ELSE
    LET got == StorageGet(recs, req.IdempotencyKey, t, failGet) IN
    IF got.err # NoErr \/ got.record = Nil
    THEN [resp |-> Nil, err |-> NoErr, hooks |-> {}]
    ELSE
    LET record == got.record[1] IN
    IF record.Status = StatusPending
    THEN [resp |-> Nil, err |-> ErrRequestInProgress, hooks |-> {"OnLockConflict"}]
    ELSE IF hasher # "none" /\ record.RequestHash # ""
                            /\ record.RequestHash # RequestHash(req)
    THEN [resp |-> Nil, err |-> ErrRequestMismatch, hooks |-> {}]
    ELSE IF record.Status = StatusCompleted
    THEN [resp |-> record.Response, err |-> NoErr, hooks |-> {"OnCacheHit"}]
    ELSE [resp |-> Nil, err |-> NoErr, hooks |-> {}]

\* Manager.Check with a Failed record handled like a Pending one.
CheckOp_FailedBlocks(recs, req, t, failGet) ==
    IF req.IdempotencyKey = ""
    THEN [resp |-> Nil, err |-> NoErr, hooks |-> {}]
    ELSE
    LET got == StorageGet(recs, req.IdempotencyKey, t, failGet) IN
    IF got.err # NoErr \/ got.record = Nil
    THEN [resp |-> Nil, err |-> NoErr, hooks |-> {}]
    ELSE
    LET record == got.record[1] IN
    IF hasher # "none" /\ record.RequestHash # ""
                       /\ record.RequestHash # RequestHash(req)
    THEN [resp |-> Nil, err |-> ErrRequestMismatch, hooks |-> {}]
    ELSE IF record.Status \in {StatusPending, StatusFailed}
    THEN [resp |-> Nil, err |-> ErrRequestInProgress, hooks |-> {"OnLockConflict"}]
    ELSE IF record.Status = StatusCompleted
    THEN [resp |-> record.Response, err |-> NoErr, hooks |-> {"OnCacheHit"}]
    ELSE [resp |-> Nil, err |-> NoErr, hooks |-> {}]

\* Manager.Check that compares fingerprints with or without a hasher, and
\* whatever the stored fingerprint is.
CheckOp_ComparesAlways(recs, req, t, failGet) ==
    IF req.IdempotencyKey = ""
    THEN [resp |-> Nil, err |-> NoErr, hooks |-> {}]
    ELSE
    LET got == StorageGet(recs, req.IdempotencyKey, t, failGet) IN
    IF got.err # NoErr \/ got.record = Nil
    THEN [resp |-> Nil, err |-> NoErr, hooks |-> {}]
    ELSE
    LET record == got.record[1] IN
    IF record.RequestHash # RequestHash(req)
    THEN [resp |-> Nil, err |-> ErrRequestMismatch, hooks |-> {}]
    ELSE IF record.Status = StatusPending
    THEN [resp |-> Nil, err |-> ErrRequestInProgress, hooks |-> {"OnLockConflict"}]
    ELSE IF record.Status = StatusCompleted
    THEN [resp |-> record.Response, err |-> NoErr, hooks |-> {"OnCacheHit"}]
    ELSE [resp |-> Nil, err |-> NoErr, hooks |-> {}]

\* Manager.Check. The key strategy is not configured (nil), so a request
\* without a key stays without one. Returns the cached response, the error
\* and the hooks fired.
CheckOp(recs, req, t, failGet) ==
    IF req.IdempotencyKey = ""
    THEN [resp |-> Nil, err |-> NoErr, hooks |-> {}]
    ELSE
    LET got == StorageGet(recs, req.IdempotencyKey, t, failGet) IN
    IF got.err # NoErr \/ got.record = Nil
    THEN [resp |-> Nil, err |-> NoErr, hooks |-> {}]
    ELSE
    LET record == got.record[1] IN
    IF hasher # "none" /\ record.RequestHash # ""
                       /\ record.RequestHash # RequestHash(req)
    THEN [resp |-> Nil, err |-> ErrRequestMismatch, hooks |-> {}]
    ELSE
    CASE record.Status = StatusPending ->
            [resp |-> Nil, err |-> ErrRequestInProgress, hooks |-> {"OnLockConflict"}]
      [] record.Status = StatusCompleted ->
            [resp |-> record.Response, err |-> NoErr, hooks |-> {"OnCacheHit"}]
      [] record.Status = StatusFailed ->
            [resp |-> Nil, err |-> NoErr, hooks |-> {}]
      [] OTHER ->
            [resp |-> Nil, err |-> NoErr, hooks |-> {}]

\* Manager.Lock that never fingerprints the request.
LockOp_NoHash(recs, lks, req, t, failTry, failSet, failUnl) ==
    IF req.IdempotencyKey = ""
    THEN [records |-> recs, locks |-> lks, err |-> ErrNoIdempotencyKey, hooks |-> {}]
    ELSE
    LET record  == [Key         |-> req.IdempotencyKey,
                    RequestHash |-> "",
                    Status      |-> StatusPending,
                    Response    |-> Nil,
                    CreatedAt   |-> t,
                    ExpiresAt   |-> t + TTL]
        try     == StorageTryLock(lks, req.IdempotencyKey, LockTimeout, t, failTry)
    IN
    IF try.err # NoErr
    THEN [records |-> recs, locks |-> try.locks,
          err |-> NewStorageError("trylock", try.err), hooks |-> {}]
    ELSE IF ~try.ok
    THEN [records |-> recs, locks |-> try.locks, err |-> ErrRequestInProgress, hooks |-> {}]
    ELSE
    LET set == StorageSet(recs, record, TTL, t, failSet) IN
    IF set.err # NoErr
    THEN [records |-> set.records,
          locks   |-> StorageUnlock(try.locks, req.IdempotencyKey, failUnl).locks,
          err     |-> NewStorageError("set", set.err), hooks |-> {}]
    ELSE [records |-> set.records, locks |-> try.locks, err |-> NoErr,
          hooks |-> {"OnCacheMiss"}]

\* Manager.Lock that returns on a failed Set without releasing the lock.
LockOp_KeepsLock(recs, lks, req, t, failTry, failSet, failUnl) ==
    IF req.IdempotencyKey = ""
    THEN [records |-> recs, locks |-> lks, err |-> ErrNoIdempotencyKey, hooks |-> {}]
    ELSE
    LET reqHash == IF hasher # "none" THEN RequestHash(req) ELSE ""
        record  == [Key         |-> req.IdempotencyKey,
                    RequestHash |-> reqHash,
                    Status      |-> StatusPending,
                    Response    |-> Nil,
                    CreatedAt   |-> t,
                    ExpiresAt   |-> t + TTL]
        try     == StorageTryLock(lks, req.IdempotencyKey, LockTimeout, t, failTry)
    IN
    IF try.err # NoErr
    THEN [records |-> recs, locks |-> try.locks,
          err |-> NewStorageError("trylock", try.err), hooks |-> {}]
    ELSE IF ~try.ok
    THEN [records |-> recs, locks |-> try.locks, err |-> ErrRequestInProgress, hooks |-> {}]
    ELSE
    LET set == StorageSet(recs, record, TTL, t, failSet) IN
    IF set.err # NoErr
    THEN [records |-> set.records, locks |-> try.locks,
          err |-> NewStorageError("set", set.err), hooks |-> {}]
    ELSE [records |-> set.records, locks |-> try.locks, err |-> NoErr,
          hooks |-> {"OnCacheMiss"}]

\* Manager.Lock
LockOp(recs, lks, req, t, failTry, failSet, failUnl) ==
    IF req.IdempotencyKey = ""
    THEN [records |-> recs, locks |-> lks, err |-> ErrNoIdempotencyKey, hooks |-> {}]
    ELSE
    LET reqHash == IF hasher # "none" THEN RequestHash(req) ELSE ""
        record  == [Key         |-> req.IdempotencyKey,
                    RequestHash |-> reqHash,
                    Status      |-> StatusPending,
                    Response    |-> Nil,
                    CreatedAt   |-> t,
                    ExpiresAt   |-> t + TTL]
        try     == StorageTryLock(lks, req.IdempotencyKey, LockTimeout, t, failTry)
    IN
    IF try.err # NoErr
    THEN [records |-> recs, locks |-> try.locks,
          err |-> NewStorageError("trylock", try.err), hooks |-> {}]
    ELSE IF ~try.ok
    THEN [records |-> recs, locks |-> try.locks, err |-> ErrRequestInProgress, hooks |-> {}]
    ELSE
    LET set == StorageSet(recs, record, TTL, t, failSet) IN
    IF set.err # NoErr
    THEN [records |-> set.records,
          locks   |-> StorageUnlock(try.locks, req.IdempotencyKey, failUnl).locks,
          err     |-> NewStorageError("set", set.err), hooks |-> {}]
    ELSE [records |-> set.records, locks |-> try.locks, err |-> NoErr,
          hooks |-> {"OnCacheMiss"}]

\* Manager.Store that writes the response but leaves the status as it was.
StoreOp_KeepsStatus(recs, lks, key, resp, t, failGet, failSet, failUnl) ==
    IF key = ""
    THEN [records |-> recs, locks |-> lks, err |-> ErrNoIdempotencyKey]
    ELSE
    LET got    == StorageGet(recs, key, t, failGet)
        base   == IF got.err # NoErr \/ got.record = Nil
                  THEN [Key         |-> key,
                        RequestHash |-> "",
                        Status      |-> "",
                        Response    |-> Nil,
                        CreatedAt   |-> t,
                        ExpiresAt   |-> ZeroTime]
                  ELSE got.record[1]
        record == [base EXCEPT !.Response  = Some(ToCachedResponse(resp)),
                               !.ExpiresAt = t + TTL]
        set    == StorageSet(recs, record, TTL, t, failSet)
    IN
    IF set.err # NoErr
    THEN [records |-> set.records, locks |-> lks, err |-> NewStorageError("set", set.err)]
    ELSE [records |-> set.records,
          locks   |-> StorageUnlock(lks, key, failUnl).locks,
          err     |-> NoErr]

\* Manager.Store that always starts from a new record.
StoreOp_FreshShell(recs, lks, key, resp, t, failGet, failSet, failUnl) ==
    IF key = ""
    THEN [records |-> recs, locks |-> lks, err |-> ErrNoIdempotencyKey]
    ELSE
    LET base   == [Key         |-> key,
                   RequestHash |-> "",
                   Status      |-> "",
                   Response    |-> Nil,
                   CreatedAt   |-> t,
                   ExpiresAt   |-> ZeroTime]
        record == [base EXCEPT !.Status    = StatusCompleted,
                               !.Response  = Some(ToCachedResponse(resp)),
                               !.ExpiresAt = t + TTL]
        set    == StorageSet(recs, record, TTL, t, failSet)
    IN
    IF set.err # NoErr
    THEN [records |-> set.records, locks |-> lks, err |-> NewStorageError("set", set.err)]
    ELSE [records |-> set.records,
          locks   |-> StorageUnlock(lks, key, failUnl).locks,
          err     |-> NoErr]

\* Manager.Store that reuses whatever record the map holds for the key.
StoreOp_ReusesStale(recs, lks, key, resp, t, failGet, failSet, failUnl) ==
    IF key = ""
    THEN [records |-> recs, locks |-> lks, err |-> ErrNoIdempotencyKey]
    ELSE
    LET base   == IF key \notin DOMAIN recs
                  THEN [Key         |-> key,
                        RequestHash |-> "",
                        Status      |-> "",
                        Response    |-> Nil,
                        CreatedAt   |-> t,
                        ExpiresAt   |-> ZeroTime]
                  ELSE recs[key]
        record == [base EXCEPT !.Status    = StatusCompleted,
                               !.Response  = Some(ToCachedResponse(resp)),
                               !.ExpiresAt = t + TTL]
        set    == StorageSet(recs, record, TTL, t, failSet)
    IN
    IF set.err # NoErr
    THEN [records |-> set.records, locks |-> lks, err |-> NewStorageError("set", set.err)]
    ELSE [records |-> set.records,
          locks   |-> StorageUnlock(lks, key, failUnl).locks,
          err     |-> NoErr]

\* Manager.Store
StoreOp(recs, lks, key, resp, t, failGet, failSet, failUnl) ==
    IF key = ""
    THEN [records |-> recs, locks |-> lks, err |-> ErrNoIdempotencyKey]
    ELSE
    LET got    == StorageGet(recs, key, t, failGet)
        base   == IF got.err # NoErr \/ got.record = Nil
                  THEN [Key         |-> key,
                        RequestHash |-> "",
                        Status      |-> "",
                        Response    |-> Nil,
                        CreatedAt   |-> t,
                        ExpiresAt   |-> ZeroTime]
                  ELSE got.record[1]
        record == [base EXCEPT !.Status    = StatusCompleted,
                               !.Response  = Some(ToCachedResponse(resp)),
                               !.ExpiresAt = t + TTL]
        set    == StorageSet(recs, record, TTL, t, failSet)
    IN
    IF set.err # NoErr
    THEN [records |-> set.records, locks |-> lks, err |-> NewStorageError("set", set.err)]
    ELSE [records |-> set.records,
          locks   |-> StorageUnlock(lks, key, failUnl).locks,
          err     |-> NoErr]

\* Manager.Unlock without the test for an empty key.
UnlockOp_NoKeyCheck(lks, key, failUnl) ==
    LET u == StorageUnlock(lks, key, failUnl) IN
    IF u.err # NoErr
    THEN [locks |-> u.locks, err |-> NewStorageError("unlock", u.err)]
    ELSE [locks |-> u.locks, err |-> NoErr]

\* Manager.Unlock
UnlockOp(lks, key, failUnl) ==
    IF key = ""
    THEN [locks |-> lks, err |-> NoErr]
    ELSE
    LET u == StorageUnlock(lks, key, failUnl) IN
    IF u.err # NoErr
    THEN [locks |-> u.locks, err |-> NewStorageError("unlock", u.err)]
    ELSE [locks |-> u.locks, err |-> NoErr]

\* ------------------------------------------------- callers and the clock
NoRequest == [IdempotencyKey |-> "", Body |-> ""]
NoCall == [op |-> "none", key |-> "", err |-> NoErr]

\* The failures a storage call can be given: none on the in-memory backend.
Fail == IF flaky THEN BOOLEAN ELSE {FALSE}

\* The Lock results on a key since it was last fresh (no record, no lock),
\* counted while no Store, Unlock or lock-TTL expiry has touched the key
\* (clean). A Store closes the count and keeps it; an Unlock or an expiry
\* discards it.
NoRace == [clean |-> TRUE, ok |-> 0, rest |-> {}]
Disturbed == [clean |-> FALSE, ok |-> 0, rest |-> {}]

\* A caller between its successful Lock and its Store/Unlock on key k.
InCS(c, k) == pc[c] \in {"locked", "executed"} /\ creq[c].IdempotencyKey = k

Init ==
    /\ now = 0
    /\ records = EmptyMap
    /\ locks = EmptyMap
    /\ hasher \in {"none", "body"}
    /\ flaky = FALSE
    /\ pc = [c \in Callers |-> "idle"]
    /\ creq = [c \in Callers |-> NoRequest]
    /\ lockExp = [c \in Callers |-> 0]
    /\ execs = [k \in Keys |-> 0]
    /\ race = [k \in Keys |-> NoRace]
    /\ last = NoCall

\* A request arrives and the caller calls Manager.Check (middleware: the
\* first coordinator call of a request).
CheckCall(c, req, fg) ==
    /\ pc[c] = "idle"
    /\ LET r == CheckOp(records, req, now, fg) IN
         /\ pc' = [pc EXCEPT ![c] = IF r.err = NoErr /\ r.resp = Nil
                                    THEN "admit" ELSE "idle"]
         /\ creq' = [creq EXCEPT ![c] = IF r.err = NoErr /\ r.resp = Nil
                                        THEN req ELSE NoRequest]
         /\ last' = [op |-> "Check", key |-> req.IdempotencyKey, err |-> r.err]
    /\ UNCHANGED <<now, records, locks, hasher, flaky, lockExp, execs, race>>

Check(c) == \E req \in KeyedRequests, fg \in Fail : CheckCall(c, req, fg)

\* Check returned (nil, nil): the caller calls Manager.Lock.
LockCall(c, ft, fs, fu) ==
    /\ pc[c] = "admit"
    /\ LET r == LockOp(records, locks, creq[c], now, ft, fs, fu)
           k == creq[c].IdempotencyKey
       IN
         /\ records' = r.records
         /\ locks' = r.locks
         /\ pc' = [pc EXCEPT ![c] = IF r.err = NoErr THEN "locked" ELSE "idle"]
         /\ creq' = [creq EXCEPT ![c] = IF r.err = NoErr THEN @ ELSE NoRequest]
         /\ lockExp' = [lockExp EXCEPT ![c] = IF r.err = NoErr
                                              THEN now + LockTimeout ELSE 0]
         /\ race' = [race EXCEPT ![k] =
                        IF ~@.clean THEN @
                        ELSE IF r.err = NoErr
                        THEN [@ EXCEPT !.ok = IF @ < 2 THEN @ + 1 ELSE @]
                        ELSE [@ EXCEPT !.rest = @ \cup {r.err}]]
         /\ last' = [op |-> "Lock", key |-> k, err |-> r.err]
    /\ UNCHANGED <<now, hasher, flaky, execs>>

Lock(c) == \E ft \in Fail, fs \in Fail, fu \in Fail : LockCall(c, ft, fs, fu)

\* Lock returned nil: the caller runs the protected operation.
Exec(c) ==
    /\ pc[c] = "locked"
    /\ pc' = [pc EXCEPT ![c] = "executed"]
    /\ execs' = [execs EXCEPT ![creq[c].IdempotencyKey] = IF @ < 2 THEN @ + 1 ELSE @]
    /\ last' = NoCall
    /\ UNCHANGED <<now, records, locks, hasher, flaky, creq, lockExp, race>>

\* The operation succeeded: the caller calls Manager.Store with its response.
StoreCall(c, resp, fg, fs, fu) ==
    /\ pc[c] = "executed"
    /\ LET k == creq[c].IdempotencyKey
           r == StoreOp(records, locks, k, resp, now, fg, fs, fu)
       IN
         /\ records' = r.records
         /\ locks' = r.locks
         /\ race' = [race EXCEPT ![k] = [@ EXCEPT !.clean = FALSE]]
         /\ last' = [op |-> "Store", key |-> k, err |-> r.err]
    /\ pc' = [pc EXCEPT ![c] = "idle"]
    /\ creq' = [creq EXCEPT ![c] = NoRequest]
    /\ lockExp' = [lockExp EXCEPT ![c] = 0]
    /\ UNCHANGED <<now, hasher, flaky, execs>>

Store(c) ==
    \E resp \in Responses, fg \in Fail, fs \in Fail, fu \in Fail :
        StoreCall(c, resp, fg, fs, fu)

\* The operation failed: the caller calls Manager.Unlock, so that a retry
\* may run the operation again.
UnlockCall(c, fu) ==
    /\ pc[c] = "executed"
    /\ LET k == creq[c].IdempotencyKey
           r == UnlockOp(locks, k, fu)
       IN
         /\ locks' = r.locks
         /\ race' = [race EXCEPT ![k] = Disturbed]
         /\ execs' = [execs EXCEPT ![k] = 0]
         /\ last' = [op |-> "Unlock", key |-> k, err |-> r.err]
    /\ pc' = [pc EXCEPT ![c] = "idle"]
    /\ creq' = [creq EXCEPT ![c] = NoRequest]
    /\ lockExp' = [lockExp EXCEPT ![c] = 0]
    /\ UNCHANGED <<now, records, hasher, flaky>>

Unlock(c) == \E fu \in Fail : UnlockCall(c, fu)

\* The holder of a lock dies: neither Store nor Unlock is called.
Crash(c) ==
    /\ pc[c] \in {"locked", "executed"}
    /\ pc' = [pc EXCEPT ![c] = "idle"]
    /\ creq' = [creq EXCEPT ![c] = NoRequest]
    /\ lockExp' = [lockExp EXCEPT ![c] = 0]
    /\ last' = [op |-> "Crash", key |-> creq[c].IdempotencyKey, err |-> NoErr]
    /\ UNCHANGED <<now, records, locks, hasher, flaky, execs, race>>

\* Time passes. A key's window of executions ends when its record expires
\* or when the TTL of a lock still in the map elapses; a caller whose lock
\* TTL has elapsed no longer holds an unexpired lock (lockExp 0).
Tick ==
    /\ now < MaxTime
    /\ now' = now + 1
    /\ execs' = [k \in Keys |->
                    IF \/ (k \in DOMAIN records /\ now + 1 > records[k].ExpiresAt)
                       \/ (k \in DOMAIN locks /\ now + 1 >= locks[k])
                    THEN 0 ELSE execs[k]]
    /\ race' = [k \in Keys |->
                    IF k \in DOMAIN locks /\ now + 1 >= locks[k]
                    THEN Disturbed ELSE race[k]]
    /\ lockExp' = [c \in Callers |-> IF now + 1 >= lockExp[c] THEN 0 ELSE lockExp[c]]
    /\ last' = NoCall
    /\ UNCHANGED <<records, locks, hasher, flaky, pc, creq>>

\* Storage.cleanup: one sweep of the in-memory backend's ticker goroutine.
Cleanup ==
    /\ \/ \E k \in DOMAIN records : now > records[k].ExpiresAt
       \/ \E k \in DOMAIN locks : now > locks[k]
    /\ records' = [k \in {x \in DOMAIN records : ~(now > records[x].ExpiresAt)}
                      |-> records[k]]
    /\ locks' = [k \in {x \in DOMAIN locks : ~(now > locks[x])} |-> locks[k]]
    /\ race' = [k \in Keys |->
                    IF k \notin DOMAIN records' /\ k \notin DOMAIN locks'
                    THEN NoRace ELSE race[k]]
    /\ last' = NoCall
    /\ UNCHANGED <<now, hasher, flaky, pc, creq, lockExp, execs>>

Next ==
    \/ \E c \in Callers : Check(c)
    \/ \E c \in Callers : Lock(c)
    \/ \E c \in Callers : Exec(c)
    \/ \E c \in Callers : Store(c)
    \/ \E c \in Callers : Unlock(c)
    \/ \E c \in Callers : Crash(c)
    \/ Tick
    \/ Cleanup

Spec == Init /\ [][Next]_vars

\* The same program with its progress assumptions: the clock advances (up to
\* the modelled horizon), requests keep arriving at every idle caller, and a
\* caller that Check admitted goes on to call Lock. Neither the cleanup
\* goroutine nor any Store or Unlock is assumed to run.
SpecLive ==
    /\ Init
    /\ [][Next]_vars
    /\ WF_vars(Tick)
    /\ \A c \in Callers : WF_vars(Check(c)) /\ WF_vars(Lock(c))

\* --------------------------------------------- Check as a function of storage
\* Manager.Check applied to any stored record: the storage holds nothing or
\* one record of any status, fingerprint, response and expiry (Storage.Set is
\* public, so a record need not have been written by Lock or Store).
AnyRecords ==
    [Key         : Keys,
     RequestHash : {""} \cup {Sha256Hex(b) : b \in Bodies \ {""}},
     Status      : {StatusPending, StatusCompleted, StatusFailed, "archived"},
     Response    : {Nil} \cup {Some(ToCachedResponse(r)) : r \in Responses},
     CreatedAt   : {0},
     ExpiresAt   : 0..TTL]

InitCheck ==
    /\ now = 0
    /\ records \in {EmptyMap} \cup {MapPut(EmptyMap, rec.Key, rec) : rec \in AnyRecords}
    /\ locks = EmptyMap
    /\ hasher \in {"none", "body"}
    /\ flaky \in BOOLEAN
    /\ pc = [c \in Callers |-> "idle"]
    /\ creq = [c \in Callers |-> NoRequest]
    /\ lockExp = [c \in Callers |-> 0]
    /\ execs = [k \in Keys |-> 0]
    /\ race = [k \in Keys |-> NoRace]
    /\ last = NoCall

\* One call of Manager.Check, recorded in full.
Probe ==
    /\ \E req \in Requests, fg \in Fail :
         LET r == CheckOp(records, req, now, fg) IN
         last' = [op |-> "Check", key |-> req.IdempotencyKey, err |-> r.err,
                  req |-> req, resp |-> r.resp, hooks |-> r.hooks, fail |-> fg]
    /\ UNCHANGED <<now, records, locks, hasher, flaky, pc, creq, lockExp, execs, race>>

NextCheck == Probe \/ Tick

SpecCheck == InitCheck /\ [][NextCheck]_vars

\* ------------------------------------- the Manager's calls on any storage
\* Manager.Lock, Store and Unlock and the backend's Get and Exists, called in
\* any order with any arguments (an empty key included) on a storage that
\* holds nothing or any one record, with or without a lock entry (TryLock
\* takes the lock's ttl from its caller, so an entry may outlive
\* LockTimeout), on a backend whose calls may fail.
\* Records in which exactly the Completed ones carry a response, as in every
\* record the Manager writes.
OpsRecords == {rec \in AnyRecords : (rec.Status = StatusCompleted) <=> (rec.Response # Nil)}

InitOps ==
    /\ now = 0
    /\ records \in {EmptyMap} \cup {MapPut(EmptyMap, rec.Key, rec) : rec \in OpsRecords}
    /\ locks \in {EmptyMap} \cup {MapPut(EmptyMap, k, e) : k \in Keys, e \in 0..LockTimeout + 1}
    /\ hasher \in {"none", "body"}
    /\ flaky = TRUE
    /\ pc = [c \in Callers |-> "idle"]
    /\ creq = [c \in Callers |-> NoRequest]
    /\ lockExp = [c \in Callers |-> 0]
    /\ execs = [k \in Keys |-> 0]
    /\ race = [k \in Keys |-> Disturbed]
    /\ last = NoCall

\* Whether the backend holds an unexpired lock on the key (what TryLock tests).
Held(lks, key, t) == key \in DOMAIN lks /\ t < lks[key]

\* Manager.Lock(ctx, req)
OpLockCall(req, ft, fs, fu) ==
    /\ LET r == LockOp(records, locks, req, now, ft, fs, fu) IN
         /\ records' = r.records
         /\ locks' = r.locks
         /\ last' = [op |-> "Lock", key |-> req.IdempotencyKey, err |-> r.err,
                     held |-> Held(locks, req.IdempotencyKey, now)]
    /\ UNCHANGED <<now, hasher, flaky, pc, creq, lockExp, execs, race>>

OpLock == \E req \in Requests, ft \in Fail, fs \in Fail, fu \in Fail :
              OpLockCall(req, ft, fs, fu)

\* Manager.Store(ctx, key, resp)
OpStoreCall(key, resp, fg, fs, fu) ==
    /\ LET r == StoreOp(records, locks, key, resp, now, fg, fs, fu) IN
         /\ records' = r.records
         /\ locks' = r.locks
         /\ last' = [op |-> "Store", key |-> key, err |-> r.err,
                     held |-> Held(locks, key, now),
                     found |-> StorageGet(records, key, now, fg).record # Nil]
    /\ UNCHANGED <<now, hasher, flaky, pc, creq, lockExp, execs, race>>

OpStore == \E key \in Keys \cup {""}, resp \in Responses,
              fg \in Fail, fs \in Fail, fu \in Fail :
              OpStoreCall(key, resp, fg, fs, fu)

\* Manager.Unlock(ctx, key)
OpUnlockCall(key, fu) ==
    /\ LET r == UnlockOp(locks, key, fu) IN
         /\ locks' = r.locks
         /\ last' = [op |-> "Unlock", key |-> key, err |-> r.err,
                     held |-> Held(locks, key, now)]
    /\ UNCHANGED <<now, records, hasher, flaky, pc, creq, lockExp, execs, race>>

OpUnlock == \E key \in Keys \cup {""}, fu \in Fail : OpUnlockCall(key, fu)

\* memory.Storage.Get(ctx, key) and memory.Storage.Exists(ctx, key)
OpRead ==
    /\ \E key \in Keys :
         last' = [op |-> "Read", key |-> key,
                  err |-> MemGet(records, key, now).err,
                  record |-> MemGet(records, key, now).record,
                  exists |-> MemExists(records, key, now)]
    /\ UNCHANGED <<now, records, locks, hasher, flaky, pc, creq, lockExp, execs, race>>

\* The clock, for a storage used outside the request protocol.
OpTick ==
    /\ now < MaxTime
    /\ now' = now + 1
    /\ last' = NoCall
    /\ UNCHANGED <<records, locks, hasher, flaky, pc, creq, lockExp, execs, race>>

\* Storage.cleanup, one sweep.
OpCleanup ==
    /\ \/ \E k \in DOMAIN records : now > records[k].ExpiresAt
       \/ \E k \in DOMAIN locks : now > locks[k]
    /\ records' = [k \in {x \in DOMAIN records : ~(now > records[x].ExpiresAt)}
                      |-> records[k]]
    /\ locks' = [k \in {x \in DOMAIN locks : ~(now > locks[x])} |-> locks[k]]
    /\ last' = NoCall
    /\ UNCHANGED <<now, hasher, flaky, pc, creq, lockExp, execs, race>>

NextOps == OpLock \/ OpStore \/ OpUnlock \/ OpRead \/ OpTick \/ OpCleanup

SpecOps == InitOps /\ [][NextOps]_vars

\* ------------------------------------------- Check with a key strategy
\* Config.KeyStrategy: nil, or a strategy whose Generate(req) returns gen, a
\* key (possibly empty) and an error.
Generated == [key : Keys \cup {""}, err : {NoErr, "generate failed"}]
KeyStrategies == {Nil} \cup {Some(g) : g \in Generated}

\* Manager.Check that asks the strategy whether or not the request has a key.
CheckWithKeyStrategy_AlwaysGenerates(recs, req, t, failGet, strategy) ==
    LET none == [resp |-> Nil, err |-> NoErr, hooks |-> {}] IN
    IF strategy = Nil
    THEN IF req.IdempotencyKey = ""
         THEN [result |-> none, key |-> "", consulted |-> FALSE, reads |-> 0]
         ELSE [result |-> CheckOp(recs, req, t, failGet),
               key |-> req.IdempotencyKey, consulted |-> FALSE, reads |-> 1]
    ELSE IF strategy[1].err # NoErr
    THEN [result |-> [resp |-> Nil, err |-> strategy[1].err, hooks |-> {}],
          key |-> "", consulted |-> TRUE, reads |-> 0]
    ELSE IF strategy[1].key = ""
    THEN [result |-> none, key |-> "", consulted |-> TRUE, reads |-> 0]
    ELSE [result |-> CheckOp(recs, [req EXCEPT !.IdempotencyKey = strategy[1].key],
                             t, failGet),
          key |-> strategy[1].key, consulted |-> TRUE, reads |-> 1]

\* Manager.Check, key strategy included: the result of the call, the key the
\* request carries afterwards, whether Generate was called, and the number
\* of Storage.Get calls made.
CheckWithKeyStrategy(recs, req, t, failGet, strategy) ==
    LET none == [resp |-> Nil, err |-> NoErr, hooks |-> {}] IN
    IF req.IdempotencyKey # ""
    THEN [result |-> CheckOp(recs, req, t, failGet),
          key |-> req.IdempotencyKey, consulted |-> FALSE, reads |-> 1]
    ELSE IF strategy = Nil
    THEN [result |-> none, key |-> "", consulted |-> FALSE, reads |-> 0]
    ELSE IF strategy[1].err # NoErr
    THEN [result |-> [resp |-> Nil, err |-> strategy[1].err, hooks |-> {}],
          key |-> "", consulted |-> TRUE, reads |-> 0]
    ELSE IF strategy[1].key = ""
    THEN [result |-> none, key |-> "", consulted |-> TRUE, reads |-> 0]
    ELSE [result |-> CheckOp(recs, [req EXCEPT !.IdempotencyKey = strategy[1].key],
                             t, failGet),
          key |-> strategy[1].key, consulted |-> TRUE, reads |-> 1]

\* One call of Manager.Check under a configured or missing key strategy.
ProbeKey ==
    /\ \E req \in Requests, fg \in Fail, strategy \in KeyStrategies :
         LET r == CheckWithKeyStrategy(records, req, now, fg, strategy) IN
         last' = [op |-> "CheckKey", key |-> r.key, err |-> r.result.err,
                  req |-> req, strategy |-> strategy, fail |-> fg,
                  resp |-> r.result.resp, hooks |-> r.result.hooks,
                  consulted |-> r.consulted, reads |-> r.reads]
    /\ UNCHANGED <<now, records, locks, hasher, flaky, pc, creq, lockExp, execs, race>>

NextKey == ProbeKey \/ Tick

SpecKey == InitCheck /\ [][NextKey]_vars

\* ------------------------------------------------ NewManager and Config
\* The Config values handed to NewManager: Storage nil or the in-memory
\* backend; durations zero (unset), positive or negative (time.Duration is
\* signed); RequestHasher nil ("none") or hash.BodyHasher().
\* AllowedMethods: a nil slice, or a slice (empty or not) of method names.
DefaultMethods == <<"POST", "PUT", "PATCH", "DELETE">>
MethodLists == {<<>>, <<"GET">>, <<"POST", "GET">>}
Methods == {"GET", "POST", "post", "PATCH"}

Configs ==
    [Storage        : {"nil", "memory"},
     TTL            : {-1, 0, 1, TTL},
     LockTimeout    : {0, LockTimeout},
     RequestHasher  : {"none", "body"},
     AllowedMethods : {Nil} \cup {Some(l) : l \in MethodLists}]

ErrStorageNotConfigured == "ErrStorageNotConfigured"

\* Config.setDefaults that also replaces a negative TTL by the default.
setDefaults_ClampsTTL(config) ==
    [config EXCEPT !.TTL = IF @ <= 0 THEN TTL ELSE @,
                   !.LockTimeout = IF @ = 0 THEN LockTimeout ELSE @,
                   !.AllowedMethods = IF @ = Nil THEN Some(DefaultMethods) ELSE @]

\* Config.setDefaults: TTL and LockTimeout get their defaults when zero,
\* AllowedMethods when nil; no other field is touched.
setDefaults(config) ==
    [config EXCEPT !.TTL = IF @ = 0 THEN TTL ELSE @,
                   !.LockTimeout = IF @ = 0 THEN LockTimeout ELSE @,
                   !.AllowedMethods = IF @ = Nil THEN Some(DefaultMethods) ELSE @]

\* Config.validate
validate(config) ==
    IF config.Storage = "nil" THEN ErrStorageNotConfigured ELSE NoErr

\* NewManager: the manager (its config) or nil, and the error.
NewManager(config) ==
    LET c == setDefaults(config) IN
    IF validate(c) # NoErr
    THEN [manager |-> Nil, err |-> validate(c)]
    ELSE [manager |-> Some(c), err |-> NoErr]

\* Manager.IsMethodAllowed that treats an empty allow-list as "no restriction".
IsMethodAllowed_EmptyAllowsAll(m, method) ==
    LET allowed == m.AllowedMethods[1] IN
    IF Len(allowed) = 0 THEN TRUE
    ELSE \E i \in 1..Len(allowed) : allowed[i] = method

\* Manager.IsMethodAllowed of a manager with config m.
IsMethodAllowed(m, method) ==
    LET allowed == IF m.AllowedMethods = Nil THEN <<>> ELSE m.AllowedMethods[1] IN
    IF Len(allowed) = 0 THEN FALSE
    ELSE \E i \in 1..Len(allowed) : allowed[i] = method

\* Manager.Lock of a manager with config m (its hasher is `hasher`): the record
\* is stamped CreatedAt = now, ExpiresAt = now + m.TTL, the lock is taken for
\* m.LockTimeout.
LockWithConfig(m, recs, lks, req, t) ==
    IF req.IdempotencyKey = ""
    THEN [records |-> recs, locks |-> lks, err |-> ErrNoIdempotencyKey]
    ELSE
    LET record == [Key         |-> req.IdempotencyKey,
                   RequestHash |-> IF hasher # "none" THEN RequestHash(req) ELSE "",
                   Status      |-> StatusPending,
                   Response    |-> Nil,
                   CreatedAt   |-> t,
                   ExpiresAt   |-> t + m.TTL]
        try    == MemTryLock(lks, req.IdempotencyKey, m.LockTimeout, t)
    IN
    IF ~try.ok
    THEN [records |-> recs, locks |-> try.locks, err |-> ErrRequestInProgress]
    ELSE [records |-> MemSet(recs, record, m.TTL, t).records,
          locks   |-> try.locks, err |-> NoErr]

\* Manager.Store of a manager with config m.
StoreWithConfig(m, recs, lks, key, resp, t) ==
    IF key = ""
    THEN [records |-> recs, locks |-> lks, err |-> ErrNoIdempotencyKey]
    ELSE
    LET got    == MemGet(recs, key, t)
        base   == IF got.err # NoErr \/ got.record = Nil
                  THEN [Key         |-> key,
                        RequestHash |-> "",
                        Status      |-> "",
                        Response    |-> Nil,
                        CreatedAt   |-> t,
                        ExpiresAt   |-> ZeroTime]
                  ELSE got.record[1]
        record == [base EXCEPT !.Status    = StatusCompleted,
                               !.Response  = Some(ToCachedResponse(resp)),
                               !.ExpiresAt = t + m.TTL]
    IN  [records |-> MemSet(recs, record, m.TTL, t).records,
         locks   |-> MemUnlock(lks, key).locks,
         err     |-> NoErr]

\* A manager is built once by NewManager and then used: `last` keeps the
\* Config it was given and the manager's own config next to the call made.
NoManager ==
    [op |-> "none", key |-> "", err |-> NoErr,
     config |-> Nil, manager |-> Nil, req |-> NoRequest,
     method |-> "", allowed |-> FALSE]

InitConfig ==
    /\ now = 0
    /\ records = EmptyMap
    /\ locks = EmptyMap
    /\ hasher = "none"
    /\ flaky = FALSE
    /\ pc = [c \in Callers |-> "idle"]
    /\ creq = [c \in Callers |-> NoRequest]
    /\ lockExp = [c \in Callers |-> 0]
    /\ execs = [k \in Keys |-> 0]
    /\ race = [k \in Keys |-> Disturbed]
    /\ last = NoManager

\* NewManager(config)
CfgNewManager ==
    /\ last.op = "none"
    /\ \E config \in Configs :
         LET r == NewManager(config) IN
         /\ last' = [NoManager EXCEPT !.op = "NewManager", !.err = r.err,
                                      !.config = Some(config),
                                      !.manager = r.manager]
         /\ hasher' = IF r.manager # Nil THEN r.manager[1].RequestHasher ELSE hasher
    /\ UNCHANGED <<now, records, locks, flaky, pc, creq, lockExp, execs, race>>

\* manager.Lock(ctx, req)
CfgLockCall(req) ==
    /\ last.manager # Nil
    /\ LET r == LockWithConfig(last.manager[1], records, locks, req, now) IN
         /\ records' = r.records
         /\ locks' = r.locks
         /\ last' = [last EXCEPT !.op = "Lock", !.key = req.IdempotencyKey,
                                 !.err = r.err, !.req = req]
    /\ UNCHANGED <<now, hasher, flaky, pc, creq, lockExp, execs, race>>

CfgLock == \E req \in KeyedRequests : CfgLockCall(req)

\* manager.Store(ctx, key, resp) by the request whose Lock just succeeded.
CfgStoreCall(resp) ==
    /\ last.manager # Nil
    /\ last.op = "Lock" /\ last.err = NoErr
    /\ LET r == StoreWithConfig(last.manager[1], records, locks, last.key, resp, now) IN
         /\ records' = r.records
         /\ locks' = r.locks
         /\ last' = [last EXCEPT !.op = "Store", !.err = r.err]
    /\ UNCHANGED <<now, hasher, flaky, pc, creq, lockExp, execs, race>>

CfgStore == \E resp \in Responses : CfgStoreCall(resp)

\* The clock; the handler of a locked request may still be running.
CfgTick ==
    /\ last.manager # Nil
    /\ now < MaxTime
    /\ now' = now + 1
    /\ UNCHANGED <<records, locks, hasher, flaky, pc, creq, lockExp, execs, race, last>>

\* manager.IsMethodAllowed(method)
CfgIsMethodAllowedCall(method) ==
    /\ last.manager # Nil
    /\ last' = [last EXCEPT !.op = "IsMethodAllowed", !.err = NoErr,
                            !.method = method,
                            !.allowed = IsMethodAllowed(last.manager[1], method)]
    /\ UNCHANGED <<now, records, locks, hasher, flaky, pc, creq, lockExp, execs, race>>

CfgIsMethodAllowed == \E method \in Methods : CfgIsMethodAllowedCall(method)

NextConfig == CfgNewManager \/ CfgLock \/ CfgStore \/ CfgIsMethodAllowed \/ CfgTick

SpecConfig == InitConfig /\ [][NextConfig]_vars

\* -------------------------------- Store, statement by statement
\* memory.Storage.Get returns the *Record held in the map, so the record
\* Manager.Store updates is the stored object itself: each of its three field
\* assignments changes what the map holds, outside the storage mutex, and
\* other goroutines run between them. The clock stands still here, so the
\* lock holder's record stays the object in the map. When Get finds nothing
\* Store works on a new object (local), which only Set publishes.
NoLocal == [IdempotencyKey |-> "", Body |-> "", resp |-> Nil, local |-> Nil]

InitRace ==
    /\ now = 0
    /\ records = EmptyMap
    /\ locks = EmptyMap
    /\ hasher \in {"none", "body"}
    /\ flaky = FALSE
    /\ pc = [c \in Callers |-> "idle"]
    /\ creq = [c \in Callers |-> NoLocal]
    /\ lockExp = [c \in Callers |-> 0]
    /\ execs = [k \in Keys |-> 0]
    /\ race = [k \in Keys |-> Disturbed]
    /\ last = NoCall

\* Manager.Check by a request goroutine: Get, then the reads of the record's
\* fields (here at one instant).
RaceCheck(c) ==
    /\ pc[c] = "idle"
    /\ \E req \in KeyedRequests :
         LET r == CheckOp(records, req, now, FALSE)
             admitted == r.err = NoErr /\ r.resp = Nil
         IN
         /\ pc' = [pc EXCEPT ![c] = IF admitted THEN "admit" ELSE "idle"]
         /\ creq' = [creq EXCEPT ![c] =
                        IF admitted
                        THEN [NoLocal EXCEPT !.IdempotencyKey = req.IdempotencyKey,
                                             !.Body = req.Body]
                        ELSE NoLocal]
         /\ last' = [op |-> "Check", key |-> req.IdempotencyKey, err |-> r.err,
                     resp |-> r.resp, hooks |-> r.hooks]
    /\ UNCHANGED <<now, records, locks, hasher, flaky, lockExp, execs, race>>

\* Manager.Lock
RaceLock(c) ==
    /\ pc[c] = "admit"
    /\ LET req == [IdempotencyKey |-> creq[c].IdempotencyKey, Body |-> creq[c].Body]
           r == LockOp(records, locks, req, now, FALSE, FALSE, FALSE)
       IN
         /\ records' = r.records
         /\ locks' = r.locks
         /\ pc' = [pc EXCEPT ![c] = IF r.err = NoErr THEN "locked" ELSE "idle"]
         /\ creq' = [creq EXCEPT ![c] = IF r.err = NoErr THEN @ ELSE NoLocal]
         /\ last' = [op |-> "Lock", key |-> req.IdempotencyKey, err |-> r.err]
    /\ UNCHANGED <<now, hasher, flaky, lockExp, execs, race>>

\* The handler ran; Manager.Store begins: record, err := Storage.Get(ctx, key),
\* and the new Record when nothing was found.
RaceStoreGet(c) ==
    /\ pc[c] = "locked"
    /\ \E resp \in Responses :
         LET got == MemGet(records, creq[c].IdempotencyKey, now) IN
         creq' = [creq EXCEPT ![c] =
                    [@ EXCEPT !.resp = Some(resp),
                              !.local = IF got.err # NoErr \/ got.record = Nil
                                        THEN Some([Key         |-> @.IdempotencyKey,
                                                   RequestHash |-> "",
                                                   Status      |-> "",
                                                   Response    |-> Nil,
                                                   CreatedAt   |-> now,
                                                   ExpiresAt   |-> ZeroTime])
                                        ELSE Nil]]
    /\ pc' = [pc EXCEPT ![c] = "store_status"]
    /\ last' = NoCall
    /\ UNCHANGED <<now, records, locks, hasher, flaky, lockExp, execs, race>>

\* One field assignment of Store on its record: on the object in the map, or
\* on the caller's new object.
RaceAssign(c, at, field, value, next) ==
    /\ pc[c] = at
    /\ IF creq[c].local = Nil
       THEN /\ records' = [records EXCEPT ![creq[c].IdempotencyKey] =
                              [@ EXCEPT ![field] = value]]
            /\ creq' = creq
       ELSE /\ creq' = [creq EXCEPT ![c].local =
                          Some([creq[c].local[1] EXCEPT ![field] = value])]
            /\ records' = records
    /\ pc' = [pc EXCEPT ![c] = next]
    /\ last' = NoCall
    /\ UNCHANGED <<now, locks, hasher, flaky, lockExp, execs, race>>

\* record.Status = StatusCompleted
RaceStoreStatus(c) ==
    RaceAssign(c, "store_status", "Status", StatusCompleted, "store_response")

\* record.Response = resp.ToCachedResponse()
RaceStoreResponse(c) ==
    RaceAssign(c, "store_response", "Response",
               Some(ToCachedResponse(creq[c].resp[1])), "store_expires")

\* record.ExpiresAt = time.Now().Add(m.config.TTL)
RaceStoreExpires(c) ==
    RaceAssign(c, "store_expires", "ExpiresAt", now + TTL, "store_set")

\* Storage.Set(ctx, record, ttl), then Storage.Unlock(ctx, key); Store returns.
RaceStoreSet(c) ==
    /\ pc[c] = "store_set"
    /\ LET k == creq[c].IdempotencyKey
           record == IF creq[c].local = Nil THEN records[k] ELSE creq[c].local[1]
       IN
         /\ records' = MemSet(records, record, TTL, now).records
         /\ locks' = MemUnlock(locks, k).locks
         /\ last' = [op |-> "Store", key |-> k, err |-> NoErr]
    /\ pc' = [pc EXCEPT ![c] = "idle"]
    /\ creq' = [creq EXCEPT ![c] = NoLocal]
    /\ UNCHANGED <<now, hasher, flaky, lockExp, execs, race>>

NextRace ==
    \/ \E c \in Callers : RaceCheck(c)
    \/ \E c \in Callers : RaceLock(c)
    \/ \E c \in Callers : RaceStoreGet(c)
    \/ \E c \in Callers : RaceStoreStatus(c)
    \/ \E c \in Callers : RaceStoreResponse(c)
    \/ \E c \in Callers : RaceStoreExpires(c)
    \/ \E c \in Callers : RaceStoreSet(c)

SpecRace == InitRace /\ [][NextRace]_vars

\* ------------------------------------------- the in-memory backend alone
\* memory.Storage called directly, as its tests do: any sequence of Set,
\* Delete, TryLock, Unlock and reads on two keys, with the clock and the
\* cleanup sweep in between.
StorageKeys == {"k1", "k2"}
LockTTLs == {LockTimeout, TTL}

\* The records handed to Set: ExpiresAt unset or set by the caller.
SetRecords(t) ==
    [Key         : StorageKeys,
     RequestHash : {""},
     Status      : {StatusCompleted},
     Response    : {Nil},
     CreatedAt   : {0},
     ExpiresAt   : {ZeroTime, t + 1}]

InitStorage ==
    /\ now = 0
    /\ records = EmptyMap
    /\ locks = EmptyMap
    /\ hasher = "none"
    /\ flaky = FALSE
    /\ pc = [c \in Callers |-> "idle"]
    /\ creq = [c \in Callers |-> NoRequest]
    /\ lockExp = [c \in Callers |-> 0]
    /\ execs = [k \in Keys |-> 0]
    /\ race = [k \in Keys |-> Disturbed]
    /\ last = NoCall

\* Storage.Set(ctx, record, ttl)
MemSetCall(record, ttl) ==
    /\ records' = MemSet(records, record, ttl, now).records
    /\ last' = [op |-> "Set", key |-> record.Key,
                err |-> MemSet(records, record, ttl, now).err,
                had |-> IF record.Key \notin DOMAIN records THEN "absent"
                        ELSE IF now > records[record.Key].ExpiresAt THEN "expired"
                        ELSE "live"]
    /\ UNCHANGED <<now, locks, hasher, flaky, pc, creq, lockExp, execs, race>>

StorageSetStep == \E record \in SetRecords(now), ttl \in LockTTLs : MemSetCall(record, ttl)

\* Storage.TryLock(ctx, key, ttl); prev is the lock entry the call found.
MemTryLockCall(key, ttl) ==
    /\ LET r == MemTryLock(locks, key, ttl, now) IN
         /\ locks' = r.locks
         /\ last' = [op |-> "TryLock", key |-> key, err |-> r.err, ok |-> r.ok,
                     ttl |-> ttl,
                     prev |-> IF key \in DOMAIN locks THEN Some(locks[key]) ELSE Nil]
    /\ UNCHANGED <<now, records, hasher, flaky, pc, creq, lockExp, execs, race>>

StorageTryLockStep == \E key \in StorageKeys, ttl \in LockTTLs : MemTryLockCall(key, ttl)

\* Storage.Unlock(ctx, key)
MemUnlockCall(key) ==
    /\ LET r == MemUnlock(locks, key) IN
         /\ locks' = r.locks
         /\ last' = [op |-> "Unlock", key |-> key, err |-> r.err,
                     held |-> Held(locks, key, now)]
    /\ UNCHANGED <<now, records, hasher, flaky, pc, creq, lockExp, execs, race>>

StorageUnlockStep == \E key \in StorageKeys : MemUnlockCall(key)

\* Storage.Delete(ctx, key)
MemDeleteCall(key) ==
    /\ LET r == MemDelete(records, locks, key) IN
         /\ records' = r.records
         /\ locks' = r.locks
         /\ last' = [op |-> "Delete", key |-> key, err |-> r.err,
                     held |-> Held(locks, key, now),
                     existed |-> MemExists(records, key, now)]
    /\ UNCHANGED <<now, hasher, flaky, pc, creq, lockExp, execs, race>>

StorageDeleteStep == \E key \in StorageKeys : MemDeleteCall(key)

\* Storage.Get and Storage.Exists
StorageReadStep ==
    /\ \E key \in StorageKeys :
         last' = [op |-> "Read", key |-> key,
                  err |-> MemGet(records, key, now).err,
                  exists |-> MemExists(records, key, now)]
    /\ UNCHANGED <<now, records, locks, hasher, flaky, pc, creq, lockExp, execs, race>>

NextStorage ==
    \/ StorageSetStep
    \/ StorageTryLockStep
    \/ StorageUnlockStep
    \/ StorageDeleteStep
    \/ StorageReadStep
    \/ OpTick
    \/ OpCleanup

SpecStorage == InitStorage /\ [][NextStorage]_vars

\* ------------------------------------------------- observation hooks
\* Config.OnCacheHit, OnCacheMiss and OnLockConflict are optional: each call
\* site is guarded by a nil test. CheckOp and LockOp report the call sites
\* they reach; a manager calls the hooks among them that are configured.
Hooks == {"OnCacheHit", "OnCacheMiss", "OnLockConflict"}
\* A manager built with no hook, and one built with all three.
HookConfigs == {{}, Hooks}

\* Manager.Check whose Completed branch returns the response only from inside
\* the OnCacheHit guard.
CheckWithHooks_HitNeedsHook(recs, req, t, failGet, configured) ==
    LET r == CheckOp(recs, req, t, failGet) IN
    [resp  |-> IF "OnCacheHit" \in r.hooks /\ "OnCacheHit" \notin configured
               THEN Nil ELSE r.resp,
     err   |-> r.err,
     fired |-> r.hooks \cap configured]

\* Manager.Check of a manager with the hooks in `configured` set.
CheckWithHooks(recs, req, t, failGet, configured) ==
    LET r == CheckOp(recs, req, t, failGet) IN
    [resp |-> r.resp, err |-> r.err, fired |-> r.hooks \cap configured]

\* Manager.Lock of a manager with the hooks in `configured` set.
LockWithHooks(recs, lks, req, t, failTry, failSet, failUnl, configured) ==
    LET r == LockOp(recs, lks, req, t, failTry, failSet, failUnl) IN
    [records |-> r.records, locks |-> r.locks, err |-> r.err,
     fired |-> r.hooks \cap configured]

\* A Check call; plain is what the same call returns with no hook configured.
HookCheckCall(req, fg, configured) ==
    /\ LET r == CheckWithHooks(records, req, now, fg, configured)
           p == CheckWithHooks(records, req, now, fg, {})
       IN  last' = [op |-> "Check", key |-> req.IdempotencyKey, err |-> r.err,
                    resp |-> r.resp, fired |-> r.fired, configured |-> configured,
                    plain |-> [resp |-> p.resp, err |-> p.err,
                               records |-> records, locks |-> locks]]
    /\ UNCHANGED <<now, records, locks, hasher, flaky, pc, creq, lockExp, execs, race>>

HookCheck ==
    \E req \in Requests, fg \in Fail, configured \in HookConfigs :
        HookCheckCall(req, fg, configured)

\* A Lock call; plain is what the same call does with no hook configured.
HookLockCall(req, ft, fs, fu, configured) ==
    /\ LET r == LockWithHooks(records, locks, req, now, ft, fs, fu, configured)
           p == LockWithHooks(records, locks, req, now, ft, fs, fu, {})
       IN  /\ records' = r.records
           /\ locks' = r.locks
           /\ last' = [op |-> "Lock", key |-> req.IdempotencyKey, err |-> r.err,
                       resp |-> Nil, fired |-> r.fired, configured |-> configured,
                       plain |-> [resp |-> Nil, err |-> p.err,
                                  records |-> p.records, locks |-> p.locks]]
    /\ UNCHANGED <<now, hasher, flaky, pc, creq, lockExp, execs, race>>

HookLock ==
    \E req \in Requests, ft \in Fail, fs \in Fail, fu \in Fail, configured \in HookConfigs :
        HookLockCall(req, ft, fs, fu, configured)

NextHooks == HookCheck \/ HookLock \/ OpStore \/ OpUnlock \/ OpTick

\* A new manager on an empty backend whose calls may fail.
InitHooks ==
    /\ now = 0
    /\ records = EmptyMap
    /\ locks = EmptyMap
    /\ hasher \in {"none", "body"}
    /\ flaky = TRUE
    /\ pc = [c \in Callers |-> "idle"]
    /\ creq = [c \in Callers |-> NoRequest]
    /\ lockExp = [c \in Callers |-> 0]
    /\ execs = [k \in Keys |-> 0]
    /\ race = [k \in Keys |-> Disturbed]
    /\ last = NoCall

SpecHooks == InitHooks /\ [][NextHooks]_vars

\* ------------------------------------------------------ the middlewares
\* The net/http, gin and echo middlewares share one control flow around the
\* manager: Check, Lock, the wrapped handler, then Store or Unlock. A request
\* goroutine runs it; other requests run between its manager calls. The
\* clock stands still: no record or lock expires while the requests run.
StatusConflict == 409
StatusUnprocessableEntity == 422

\* What a handler can answer: success, a client error, a server error.
HandlerResponses ==
    { [StatusCode |-> 200, Headers |-> "h1", Body |-> "B",   ContentType |-> "json"],
      [StatusCode |-> 404, Headers |-> "h1", Body |-> "no",  ContentType |-> "json"],
      [StatusCode |-> 500, Headers |-> "h1", Body |-> "err", ContentType |-> "json"] }

NoAnswer == [status |-> 0, body |-> "", replayed |-> FALSE]

\* The branch after manager.Check that lets a conflicting request through.
AfterCheck_MismatchRuns(key, resp, err) ==
    IF err = ErrRequestInProgress
    THEN [next |-> "idle",
          answer |-> [status |-> StatusConflict, body |-> "", replayed |-> FALSE]]
    ELSE IF err # NoErr
    THEN [next |-> "bypass", answer |-> NoAnswer]
    ELSE IF resp # Nil
    THEN [next |-> "idle",
          answer |-> [status |-> resp[1].StatusCode, body |-> resp[1].Body,
                      replayed |-> TRUE]]
    ELSE IF key # ""
    THEN [next |-> "admit", answer |-> NoAnswer]
    ELSE [next |-> "run", answer |-> NoAnswer]

\* The middleware after manager.Check returned (resp, err) for a request
\* that now carries `key`: where it goes next and what it has written.
AfterCheck(key, resp, err) ==
    IF err = ErrRequestInProgress
    THEN [next |-> "idle",
          answer |-> [status |-> StatusConflict, body |-> "", replayed |-> FALSE]]
    ELSE IF err = ErrRequestMismatch
    THEN [next |-> "idle",
          answer |-> [status |-> StatusUnprocessableEntity, body |-> "",
                      replayed |-> FALSE]]
    ELSE IF err # NoErr
    THEN [next |-> "bypass", answer |-> NoAnswer]
    ELSE IF resp # Nil
    THEN [next |-> "idle",
          answer |-> [status |-> resp[1].StatusCode, body |-> resp[1].Body,
                      replayed |-> TRUE]]
    ELSE IF key # ""
    THEN [next |-> "admit", answer |-> NoAnswer]
    ELSE [next |-> "run", answer |-> NoAnswer]

\* The middleware after manager.Lock returned err.
AfterLock(err) ==
    IF err = ErrRequestInProgress
    THEN [next |-> "idle",
          answer |-> [status |-> StatusConflict, body |-> "", replayed |-> FALSE]]
    ELSE [next |-> "run", answer |-> NoAnswer]

\* A completion step that stores whatever the handler answered.
Completion_StoresAll(key, status) ==
    IF key # "" THEN "Store" ELSE "none"

\* The manager call the middleware makes after the handler returned.
Completion(key, status) ==
    IF key # "" /\ status < 500 THEN "Store"
    ELSE IF key # "" THEN "Unlock"
    ELSE "none"

\* The manager's key strategy on a request without the header: none
\* configured, one that yields a key, one that fails.
MwStrategies ==
    {Nil, Some([key |-> "k1", err |-> NoErr]),
          Some([key |-> "", err |-> "generate failed"])}

NoMwRequest == [IdempotencyKey |-> "", Body |-> "", resp |-> Nil]
NoMwCall ==
    [op |-> "none", key |-> "", err |-> NoErr, caller |-> 0, resp |-> Nil,
     answer |-> NoAnswer, called |-> "none"]

InitMw ==
    /\ now = 0
    /\ records = EmptyMap
    /\ locks = EmptyMap
    /\ hasher = "body"
    /\ flaky = TRUE
    /\ pc = [c \in Callers |-> "idle"]
    /\ creq = [c \in Callers |-> NoMwRequest]
    /\ lockExp = [c \in Callers |-> 0]
    /\ execs = [k \in Keys |-> 0]
    /\ race = [k \in Keys |-> Disturbed]
    /\ last = NoMwCall

\* A request arrives (its method is allowed): the middleware builds the
\* Request, takes the key from the Idempotency-Key header and calls
\* manager.Check. strategy is the key strategy's answer for this request.
MwCheckCall(c, req, fg, strategy) ==
    /\ pc[c] = "idle"
    /\ LET r == CheckWithKeyStrategy(records, req, now, fg, strategy)
           a == AfterCheck(r.key, r.result.resp, r.result.err)
       IN
         /\ pc' = [pc EXCEPT ![c] = a.next]
         /\ creq' = [creq EXCEPT ![c] =
                        IF a.next = "idle" THEN NoMwRequest
                        ELSE [IdempotencyKey |-> r.key, Body |-> req.Body, resp |-> Nil]]
         /\ last' = [op |-> "Check", key |-> r.key, err |-> r.result.err, caller |-> c,
                     resp |-> r.result.resp, answer |-> a.answer, called |-> "Check"]
    /\ UNCHANGED <<now, records, locks, hasher, flaky, lockExp, execs, race>>

MwCheck(c) ==
    \E req \in Requests, fg \in Fail, strategy \in MwStrategies :
        MwCheckCall(c, req, fg, strategy)

\* The request has a key and Check returned (nil, nil): manager.Lock.
MwLockCall(c, ft, fs, fu) ==
    /\ pc[c] = "admit"
    /\ LET req == [IdempotencyKey |-> creq[c].IdempotencyKey, Body |-> creq[c].Body]
           r == LockOp(records, locks, req, now, ft, fs, fu)
           a == AfterLock(r.err)
       IN
         /\ records' = r.records
         /\ locks' = r.locks
         /\ pc' = [pc EXCEPT ![c] = a.next]
         /\ creq' = [creq EXCEPT ![c] = IF a.next = "idle" THEN NoMwRequest ELSE @]
         /\ last' = [op |-> "Lock", key |-> req.IdempotencyKey, err |-> r.err,
                     caller |-> c, resp |-> Nil, answer |-> a.answer, called |-> "Lock"]
    /\ UNCHANGED <<now, hasher, flaky, lockExp, execs, race>>

MwLock(c) == \E ft \in Fail, fs \in Fail, fu \in Fail : MwLockCall(c, ft, fs, fu)

\* The wrapped handler runs and writes its response: next.ServeHTTP, c.Next,
\* next(c). After a Check error the middleware returns right after it.
MwHandler(c) ==
    /\ pc[c] \in {"run", "bypass"}
    /\ \E resp \in HandlerResponses :
         /\ creq' = [creq EXCEPT ![c] =
                        IF pc[c] = "bypass" THEN NoMwRequest
                        ELSE [@ EXCEPT !.resp = Some(resp)]]
         /\ last' = [op |-> "Handler", key |-> creq[c].IdempotencyKey, err |-> NoErr,
                     caller |-> c, resp |-> Nil,
                     answer |-> [status |-> resp.StatusCode, body |-> resp.Body,
                                 replayed |-> FALSE],
                     called |-> "none"]
    /\ pc' = [pc EXCEPT ![c] = IF pc[c] = "bypass" THEN "idle" ELSE "done"]
    /\ UNCHANGED <<now, records, locks, hasher, flaky, lockExp, execs, race>>

\* The handler returned: Store of the captured response, or Unlock, or
\* nothing for a request without a key. Both results are discarded.
MwCompleteCall(c, fg, fs, fu) ==
    /\ pc[c] = "done"
    /\ LET k == creq[c].IdempotencyKey
           resp == creq[c].resp[1]
           call == Completion(k, resp.StatusCode)
           st == StoreOp(records, locks, k, resp, now, fg, fs, fu)
           un == UnlockOp(locks, k, fu)
       IN
         /\ records' = IF call = "Store" THEN st.records ELSE records
         /\ locks' = IF call = "Store" THEN st.locks
                     ELSE IF call = "Unlock" THEN un.locks ELSE locks
         /\ last' = [op |-> "Complete", key |-> k,
                     err |-> IF call = "Store" THEN st.err
                             ELSE IF call = "Unlock" THEN un.err ELSE NoErr,
                     caller |-> c, resp |-> Nil,
                     answer |-> [status |-> resp.StatusCode, body |-> resp.Body,
                                 replayed |-> FALSE],
                     called |-> call]
    /\ pc' = [pc EXCEPT ![c] = "idle"]
    /\ creq' = [creq EXCEPT ![c] = NoMwRequest]
    /\ UNCHANGED <<now, hasher, flaky, lockExp, execs, race>>

MwComplete(c) ==
    \E fg \in Fail, fs \in Fail, fu \in Fail : MwCompleteCall(c, fg, fs, fu)

NextMw ==
    \/ \E c \in Callers : MwCheck(c)
    \/ \E c \in Callers : MwLock(c)
    \/ \E c \in Callers : MwHandler(c)
    \/ \E c \in Callers : MwComplete(c)

SpecMw == InitMw /\ [][NextMw]_vars

\* ------------------------------------------- key strategies and hashers
\* A request as the key strategies and the full hasher read it: method, path,
\* header map (nil, or header name -> list of values) and body.
HeaderName == "Idempotency-Key"
HeaderMaps ==
    {Nil, Some(EmptyMap), Some(MapPut(EmptyMap, "X-Other", <<"k1">>))}
        \cup {Some(MapPut(EmptyMap, HeaderName, vs)) :
                vs \in {<<>>, <<"">>, <<"k1">>, <<"k1", "k2">>, <<"", "k1">>}}
GenMethods == {"POST", "PUT"}
GenPaths == {"/a", "/a:b"}
GenBodies == {"", "c", "b:c"}
GenRequests ==
    [Method : GenMethods, Path : GenPaths, Headers : HeaderMaps, Body : GenBodies]

\* fmt.Sprintf("%s:%s:%s", req.Method, req.Path, string(req.Body)), SHA-256,
\* hex: bodyHashGenerator.Generate, the Composite fallback, fullHasher.Hash.
Fingerprint(method, path, body) ==
    Sha256Hex(method \o ":" \o path \o ":" \o body)

\* The values of header `name` in the request: indexing a nil map or a
\* missing name gives an empty list.
HeaderValues(req, name) ==
    IF req.Headers = Nil THEN <<>>
    ELSE IF name \notin DOMAIN req.Headers[1] THEN <<>>
    ELSE req.Headers[1][name]

\* headerGenerator.Generate
HeaderBasedGenerate(req, name) ==
    IF req.Headers = Nil THEN [key |-> "", err |-> NoErr]
    ELSE IF Len(HeaderValues(req, name)) = 0 THEN [key |-> "", err |-> NoErr]
    ELSE [key |-> HeaderValues(req, name)[1], err |-> NoErr]

\* compositeGenerator.Generate that takes the header whenever it has a value.
CompositeGenerate_TakesEmptyHeader(req, name) ==
    IF req.Headers # Nil /\ Len(HeaderValues(req, name)) > 0
    THEN [key |-> HeaderValues(req, name)[1], err |-> NoErr]
    ELSE [key |-> Fingerprint(req.Method, req.Path, req.Body), err |-> NoErr]

\* compositeGenerator.Generate
CompositeGenerate(req, name) ==
    IF /\ req.Headers # Nil
       /\ Len(HeaderValues(req, name)) > 0
       /\ HeaderValues(req, name)[1] # ""
    THEN [key |-> HeaderValues(req, name)[1], err |-> NoErr]
    ELSE [key |-> Fingerprint(req.Method, req.Path, req.Body), err |-> NoErr]

\* bodyHashGenerator.Generate
BodyHashGenerate(req) ==
    [key |-> Fingerprint(req.Method, req.Path, req.Body), err |-> NoErr]

\* fullHasher.Hash
FullHasherHash(req) == Fingerprint(req.Method, req.Path, req.Body)

InitGen ==
    /\ now = 0
    /\ records = EmptyMap
    /\ locks = EmptyMap
    /\ hasher = "none"
    /\ flaky = FALSE
    /\ pc = [c \in Callers |-> "idle"]
    /\ creq = [c \in Callers |-> NoRequest]
    /\ lockExp = [c \in Callers |-> 0]
    /\ execs = [k \in Keys |-> 0]
    /\ race = [k \in Keys |-> Disturbed]
    /\ last = NoCall

\* HeaderBased(HeaderName).Generate(req) and Composite(HeaderName).Generate(req)
GenGenerate ==
    /\ \E req \in GenRequests :
         last' = [op |-> "Generate", key |-> "", err |-> NoErr, req |-> req,
                  header |-> HeaderBasedGenerate(req, HeaderName),
                  composite |-> CompositeGenerate(req, HeaderName)]
    /\ UNCHANGED <<now, records, locks, hasher, flaky, pc, creq, lockExp, execs, race>>

\* The content fingerprint of two requests, by each of its three users.
GenFingerprint ==
    /\ \E a \in GenRequests, b \in GenRequests :
         /\ a.Headers = Nil /\ b.Headers = Nil
         /\ last' = [op |-> "Fingerprint", key |-> "", err |-> NoErr,
                     a |-> a, b |-> b,
                     bodyHash  |-> <<BodyHashGenerate(a).key, BodyHashGenerate(b).key>>,
                     composite |-> <<CompositeGenerate(a, HeaderName).key,
                                     CompositeGenerate(b, HeaderName).key>>,
                     full      |-> <<FullHasherHash(a), FullHasherHash(b)>>]
    /\ UNCHANGED <<now, records, locks, hasher, flaky, pc, creq, lockExp, execs, race>>

NextGen == GenGenerate \/ GenFingerprint

SpecGen == InitGen /\ [][NextGen]_vars

\* ------------------------------------------------- the SQL backends
\* storage/sql and storage/gorm keep a row (data, expires_at) per record and a
\* row expires_at per lock. Their Get deletes an expired row through Delete,
\* which also deletes the key's lock row. The manager's calls are made by
\* request goroutines; Manager.Lock is two storage calls (TryLock, then Set)
\* and other requests run between them.
SqlUnlock(lks, key) == [locks |-> MapDel(lks, key), err |-> NoErr]

\* Storage.Delete: the record row, then Unlock.
SqlDelete(rows, lks, key) ==
    [records |-> MapDel(rows, key), locks |-> SqlUnlock(lks, key).locks, err |-> NoErr]

\* Storage.Get: the record, and the tables as the call leaves them.
SqlGet(rows, lks, key, t) ==
    IF key \notin DOMAIN rows
    THEN [record |-> Nil, err |-> NoErr, records |-> rows, locks |-> lks]
    ELSE IF t > rows[key].expires_at
    THEN [record |-> Nil, err |-> NoErr,
          records |-> SqlDelete(rows, lks, key).records,
          locks   |-> SqlDelete(rows, lks, key).locks]
    ELSE [record |-> Some(rows[key].data), err |-> NoErr,
          records |-> rows, locks |-> lks]

\* Storage.Set: upsert of (key, data, now + ttl).
SqlSet(rows, record, ttl, t) ==
    [records |-> MapPut(rows, record.Key, [data |-> record, expires_at |-> t + ttl]),
     err |-> NoErr]

\* Storage.TryLock: insert, or take over a lock row with expires_at < now.
SqlTryLock(lks, key, ttl, t) ==
    IF key \in DOMAIN lks /\ ~(lks[key] < t)
    THEN [locks |-> lks, ok |-> FALSE, err |-> NoErr]
    ELSE [locks |-> MapPut(lks, key, t + ttl), ok |-> TRUE, err |-> NoErr]

\* Manager.Check on a SQL backend: its result and the tables afterwards.
CheckOnSql(rows, lks, req, t) ==
    IF req.IdempotencyKey = ""
    THEN [resp |-> Nil, err |-> NoErr, records |-> rows, locks |-> lks]
    ELSE
    LET got == SqlGet(rows, lks, req.IdempotencyKey, t) IN
    IF got.err # NoErr \/ got.record = Nil
    THEN [resp |-> Nil, err |-> NoErr, records |-> got.records, locks |-> got.locks]
    ELSE
    LET record == got.record[1] IN
    IF hasher # "none" /\ record.RequestHash # ""
                       /\ record.RequestHash # RequestHash(req)
    THEN [resp |-> Nil, err |-> ErrRequestMismatch,
          records |-> got.records, locks |-> got.locks]
    ELSE
    CASE record.Status = StatusPending ->
            [resp |-> Nil, err |-> ErrRequestInProgress,
             records |-> got.records, locks |-> got.locks]
      [] record.Status = StatusCompleted ->
            [resp |-> record.Response, err |-> NoErr,
             records |-> got.records, locks |-> got.locks]
      [] OTHER ->
            [resp |-> Nil, err |-> NoErr,
             records |-> got.records, locks |-> got.locks]

InitSql ==
    /\ now = 0
    /\ records = EmptyMap
    /\ locks = EmptyMap
    /\ hasher \in {"none", "body"}
    /\ flaky = FALSE
    /\ pc = [c \in Callers |-> "idle"]
    /\ creq = [c \in Callers |-> NoRequest]
    /\ lockExp = [c \in Callers |-> 0]
    /\ execs = [k \in Keys |-> 0]
    /\ race = [k \in Keys |-> Disturbed]
    /\ last = NoCall

\* Manager.Check; before is the storage the call found.
SqlCheckCall(c, req) ==
    /\ pc[c] = "idle"
    /\ LET r == CheckOnSql(records, locks, req, now)
           admitted == r.err = NoErr /\ r.resp = Nil
       IN
         /\ records' = r.records
         /\ locks' = r.locks
         /\ pc' = [pc EXCEPT ![c] = IF admitted THEN "admit" ELSE "idle"]
         /\ creq' = [creq EXCEPT ![c] = IF admitted THEN req ELSE NoRequest]
         /\ last' = [op |-> "Check", key |-> req.IdempotencyKey, err |-> r.err,
                     caller |-> c,
                     before |-> [records |-> records, locks |-> locks]]
    /\ UNCHANGED <<now, hasher, flaky, lockExp, execs, race>>

SqlCheck(c) == \E req \in KeyedRequests : SqlCheckCall(c, req)

\* Manager.Lock, first storage call: TryLock.
SqlLockTry(c) ==
    /\ pc[c] = "admit"
    /\ LET r == SqlTryLock(locks, creq[c].IdempotencyKey, LockTimeout, now) IN
         /\ locks' = r.locks
         /\ pc' = [pc EXCEPT ![c] = IF r.ok THEN "trylocked" ELSE "idle"]
         /\ creq' = [creq EXCEPT ![c] = IF r.ok THEN @ ELSE NoRequest]
         /\ last' = [op |-> "TryLock", key |-> creq[c].IdempotencyKey,
                     err |-> IF r.ok THEN NoErr ELSE ErrRequestInProgress]
    /\ UNCHANGED <<now, records, hasher, flaky, lockExp, execs, race>>

\* Manager.Lock, second storage call: Set of the Pending record.
SqlLockSet(c) ==
    /\ pc[c] = "trylocked"
    /\ LET req == creq[c]
           record == [Key         |-> req.IdempotencyKey,
                      RequestHash |-> IF hasher # "none" THEN RequestHash(req) ELSE "",
                      Status      |-> StatusPending,
                      Response    |-> Nil,
                      CreatedAt   |-> now,
                      ExpiresAt   |-> now + TTL]
       IN
         /\ records' = SqlSet(records, record, TTL, now).records
         /\ last' = [op |-> "Lock", key |-> req.IdempotencyKey, err |-> NoErr]
    /\ pc' = [pc EXCEPT ![c] = "locked"]
    /\ UNCHANGED <<now, locks, hasher, flaky, creq, lockExp, execs, race>>

\* The handler ran; Manager.Store: Get, Set, Unlock.
SqlStore(c) ==
    /\ pc[c] = "locked"
    /\ \E resp \in Responses :
         LET k == creq[c].IdempotencyKey
             got == SqlGet(records, locks, k, now)
             base == IF got.err # NoErr \/ got.record = Nil
                     THEN [Key         |-> k,
                           RequestHash |-> "",
                           Status      |-> "",
                           Response    |-> Nil,
                           CreatedAt   |-> now,
                           ExpiresAt   |-> ZeroTime]
                     ELSE got.record[1]
             record == [base EXCEPT !.Status    = StatusCompleted,
                                    !.Response  = Some(ToCachedResponse(resp)),
                                    !.ExpiresAt = now + TTL]
         IN
           /\ records' = SqlSet(got.records, record, TTL, now).records
           /\ locks' = SqlUnlock(got.locks, k).locks
           /\ last' = [op |-> "Store", key |-> k, err |-> NoErr]
    /\ pc' = [pc EXCEPT ![c] = "idle"]
    /\ creq' = [creq EXCEPT ![c] = NoRequest]
    /\ UNCHANGED <<now, hasher, flaky, lockExp, execs, race>>

NextSql ==
    \/ \E c \in Callers : SqlCheck(c)
    \/ \E c \in Callers : SqlLockTry(c)
    \/ \E c \in Callers : SqlLockSet(c)
    \/ \E c \in Callers : SqlStore(c)
    \/ OpTick

SpecSql == InitSql /\ [][NextSql]_vars

\* ================================================================ claims
\* What the formulas about one recorded Check call read.
CheckedKey == last.req.IdempotencyKey
CheckedLive == CheckedKey \in DOMAIN records /\ ~(now > records[CheckedKey].ExpiresAt)
CheckedConflict ==
    /\ hasher # "none"
    /\ records[CheckedKey].RequestHash # ""
    /\ records[CheckedKey].RequestHash # RequestHash(last.req)

\* C8: with a hasher configured, a live stored record whose non-empty
\* fingerprint differs from the incoming request's makes Check return
\* ErrRequestMismatch for every status of the record, with no cached
\* response and no hook fired.
C8_MismatchPrecedence ==
    (last.op = "Check" /\ ~last.fail /\ CheckedLive /\ CheckedConflict)
        => /\ last.err = ErrRequestMismatch
           /\ last.resp = Nil
           /\ last.hooks = {}

C8_Witness ==
    /\ last.op = "Check" /\ ~last.fail /\ CheckedLive /\ CheckedConflict
    /\ records[CheckedKey].Status = StatusPending
    /\ last.err = ErrRequestMismatch

\* C9: for a live record without a fingerprint conflict, Check returns
\* (nil, ErrRequestInProgress) exactly for status Pending, the record's
\* response with a nil error (cache-hit branch) exactly for Completed, and
\* (nil, nil) for Failed and every other status.
C9_StatusBranch ==
    (last.op = "Check" /\ ~last.fail /\ CheckedLive /\ ~CheckedConflict)
        => LET rec == records[CheckedKey] IN
           /\ (last.err = ErrRequestInProgress) <=> (rec.Status = StatusPending)
           /\ rec.Status = StatusPending
                => last.resp = Nil /\ last.hooks = {"OnLockConflict"}
           /\ ("OnCacheHit" \in last.hooks) <=> (rec.Status = StatusCompleted)
           /\ rec.Status = StatusCompleted
                => last.resp = rec.Response /\ last.err = NoErr
           /\ rec.Status \notin {StatusPending, StatusCompleted}
                => last.resp = Nil /\ last.err = NoErr /\ last.hooks = {}

C9_Witness ==
    /\ last.op = "Check" /\ ~last.fail /\ CheckedLive /\ ~CheckedConflict
    /\ records[CheckedKey].Status = StatusFailed
    /\ records[CheckedKey].Response # Nil
    /\ last.resp = Nil /\ last.err = NoErr

\* C10: when the storage read fails, finds no record, or finds an expired
\* one, Check returns (nil, nil); Check never returns a storage error.
C10_FailOpenRead ==
    last.op = "Check"
        => /\ last.err \in {NoErr, ErrRequestInProgress, ErrRequestMismatch}
           /\ (last.fail \/ ~CheckedLive)
                => last.resp = Nil /\ last.err = NoErr /\ last.hooks = {}

C10_Witness ==
    /\ last.op = "Check" /\ CheckedKey \in DOMAIN records
    /\ records[CheckedKey].Status = StatusPending
    /\ now > records[CheckedKey].ExpiresAt
    /\ last.resp = Nil /\ last.err = NoErr

\* ------------------------------------------------ claims on the protocol
Fresh(k) == k \notin DOMAIN records /\ k \notin DOMAIN locks
RequestsOf(k) == {r \in Requests : r.IdempotencyKey = k}
\* The requests whose fingerprint does not conflict with the record rec.
Matching(rec) ==
    {r \in RequestsOf(rec.Key) : hasher = "none" \/ RequestHash(r) = rec.RequestHash}
SameResponse(cached, resp) ==
    /\ cached.StatusCode = resp.StatusCode
    /\ cached.Headers = resp.Headers
    /\ cached.Body = resp.Body
    /\ cached.ContentType = resp.ContentType

\* C1: callers that follow the protocol (Check; on (nil, nil) Lock; on
\* success run the operation and Store) run the protected operation at most
\* once per key while the key's record is unexpired. `execs` counts the runs
\* of a key's window; a window also ends at an Unlock (failed operation) and
\* when the TTL of a lock elapses, so neither lets the count exceed one.
C1_AtMostOnce == \A k \in Keys : execs[k] <= 1

\* C2: Lock calls on a fresh key with no Store, Unlock or lock-TTL expiry
\* among them: exactly one returns nil, every other ErrRequestInProgress.
C2_OneLockWins ==
    \A k \in Keys :
        (race[k].clean /\ (race[k].ok > 0 \/ race[k].rest # {}))
            => race[k].ok = 1 /\ race[k].rest \subseteq {ErrRequestInProgress}

C2_Witness ==
    \E k \in Keys :
        race[k].clean /\ race[k].ok = 1 /\ race[k].rest = {ErrRequestInProgress}

\* C3: per key at most one caller is between its own successful Lock and its
\* own Store/Unlock with an unexpired lock, and the lock of such a caller is
\* never released by the Store or Unlock of a caller whose lock had expired.
C3_MutualExclusion ==
    \A k \in Keys :
        /\ Cardinality({c \in Callers : InCS(c, k) /\ now < lockExp[c]}) <= 1
        /\ \A c \in Callers : (InCS(c, k) /\ now < lockExp[c]) => k \in DOMAIN locks

\* C4: the happy path. On a fresh key Check returns (nil, nil); Lock on a
\* fresh key returns nil and leaves a Pending record; a Lock by another
\* caller while the first holds its unexpired lock returns
\* ErrRequestInProgress and changes nothing; Store returns nil and leaves a
\* Completed record; a Check that follows returns the stored response.
C4_HappyPath ==
    [][\A c \in Callers :
         LET k == creq[c].IdempotencyKey IN
         /\ \A req \in KeyedRequests :
              (/\ last'.op = "Check" /\ Fresh(req.IdempotencyKey)
               /\ CheckCall(c, req, FALSE))
                  => last'.err = NoErr /\ pc'[c] = "admit"
         /\ (last'.op = "Lock" /\ Fresh(k) /\ LockCall(c, FALSE, FALSE, FALSE))
                  => /\ last'.err = NoErr /\ pc'[c] = "locked"
                     /\ k \in DOMAIN records'
                     /\ records'[k].Status = StatusPending
                     /\ records'[k].Response = Nil
         /\ (/\ last'.op = "Lock"
             /\ k \in DOMAIN locks
             /\ \E d \in Callers \ {c} : InCS(d, k) /\ now < lockExp[d]
             /\ LockCall(c, FALSE, FALSE, FALSE))
                  => /\ last'.err = ErrRequestInProgress
                     /\ records' = records /\ locks' = locks
         /\ \A resp \in Responses :
              (last'.op = "Store" /\ StoreCall(c, resp, FALSE, FALSE, FALSE))
                  => /\ last'.err = NoErr
                     /\ k \in DOMAIN records'
                     /\ records'[k].Status = StatusCompleted
                     /\ \A req \in Matching(records'[k]) :
                          LET r == CheckOp(records', req, now', FALSE) IN
                          r.err = NoErr /\ r.resp = Some(ToCachedResponse(resp))
      ]_vars

C4_Witness ==
    /\ last.op = "Store" /\ last.err = NoErr
    /\ last.key \in DOMAIN records
    /\ records[last.key].Status = StatusCompleted
    /\ ~race[last.key].clean
    /\ race[last.key].ok = 1 /\ race[last.key].rest = {ErrRequestInProgress}
    /\ \E req \in KeyedRequests :
         /\ req.IdempotencyKey = last.key
         /\ CheckOp(records, req, now, FALSE).resp # Nil

\* C5: after a successful Lock on K and Unlock(K), a Check on K with the
\* same request returns (nil, nil) and a Lock on K succeeds.
C5_UnlockMakesAbsent ==
    [][\A c \in Callers :
         (last'.op = "Unlock" /\ last'.err = NoErr /\ UnlockCall(c, FALSE))
            => LET chk == CheckOp(records', creq[c], now', FALSE)
                   lck == LockOp(records', locks', creq[c], now', FALSE, FALSE, FALSE)
               IN  chk.err = NoErr /\ chk.resp = Nil /\ lck.err = NoErr
      ]_vars

\* C6: once the lock TTL of a holder that never calls Store or Unlock has
\* elapsed, and the record TTL has not, a request with the key is not
\* rejected as in progress: Check does not return ErrRequestInProgress and
\* Lock succeeds.
C6_LockTTLBoundsBlocking ==
    \A c \in Callers :
        LET k == creq[c].IdempotencyKey IN
        (/\ InCS(c, k)
         /\ now >= lockExp[c]
         /\ k \in DOMAIN records
         /\ ~(now > records[k].ExpiresAt))
            => \A req \in RequestsOf(k) :
                 /\ CheckOp(records, req, now, FALSE).err # ErrRequestInProgress
                 /\ LockOp(records, locks, req, now, FALSE, FALSE, FALSE).err = NoErr

\* C7: Store(K, R) returning nil, followed at once by Check on K with a
\* request whose fingerprint matches the stored one (or with no hasher),
\* returns a nil error and a cached response with R's status code, headers,
\* body and content type.
C7_RoundTrip ==
    [][\A c \in Callers, resp \in Responses :
         (/\ last'.op = "Store" /\ last'.err = NoErr
          /\ StoreCall(c, resp, FALSE, FALSE, FALSE))
            => \A req \in Matching(records'[creq[c].IdempotencyKey]) :
                 LET r == CheckOp(records', req, now', FALSE) IN
                 /\ r.err = NoErr
                 /\ r.resp # Nil
                 /\ SameResponse(r.resp[1], resp)
      ]_vars

C7_Witness ==
    /\ last.op = "Store" /\ last.err = NoErr
    /\ hasher = "body"
    /\ \E req \in KeyedRequests, resp \in Responses :
         LET r == CheckOp(records, req, now, FALSE) IN
         /\ req.IdempotencyKey = last.key
         /\ r.err = NoErr /\ r.resp # Nil
         /\ SameResponse(r.resp[1], resp)

\* ------------------------------------- claims on the calls on any storage
Expired(k) == k \in DOMAIN records /\ now > records[k].ExpiresAt
NotFound == [resp |-> Nil, err |-> NoErr, hooks |-> {}]

\* C11: on the in-memory backend a record whose ExpiresAt has passed reads
\* as no record, swept or not: Get returns the error and the nil record it
\* returns for a missing key, Exists returns false, and Check returns
\* (nil, nil) for every request on the key.
C11_ExpiryAuthoritative ==
    (last.op = "Read" /\ (Expired(last.key) \/ last.key \notin DOMAIN records))
        => LET gone == MapDel(records, last.key) IN
           /\ last.err = MemGet(gone, last.key, now).err
           /\ last.err # NoErr
           /\ last.record = Nil
           /\ last.exists = FALSE
           /\ \A req \in RequestsOf(last.key) :
                CheckOp(records, req, now, FALSE) = NotFound

C11_Witness ==
    /\ last.op = "Read" /\ Expired(last.key)
    /\ records[last.key].Status = StatusCompleted
    /\ records[last.key].Response # Nil
    /\ last.exists = FALSE /\ last.record = Nil

\* C12: a Lock whose TryLock finds the lock held returns
\* ErrRequestInProgress and leaves the key's record and the lock, expiry
\* included, as they were.
C12_LockHeldNoEffect ==
    [][\A req \in Requests, fs \in BOOLEAN, fu \in BOOLEAN :
         (/\ last'.op = "Lock"
          /\ req.IdempotencyKey # ""
          /\ Held(locks, req.IdempotencyKey, now)
          /\ OpLockCall(req, FALSE, fs, fu))
            => /\ last'.err = ErrRequestInProgress
               /\ records' = records
               /\ locks' = locks
      ]_vars

C12_Witness ==
    /\ last.op = "Lock" /\ last.held /\ last.err = ErrRequestInProgress
    /\ last.key \in DOMAIN records /\ ~Expired(last.key)
    /\ records[last.key].Status = StatusCompleted
    /\ Held(locks, last.key, now) /\ now > 0

\* C13: when TryLock acquires the lock and Set succeeds, Lock returns nil and
\* the storage holds for the key a Pending record without a response, whose
\* RequestHash is the hasher's fingerprint of the request (empty without a
\* hasher) and whose ExpiresAt is now + TTL, and a lock expiring at
\* now + LockTimeout.
C13_LockPostcondition ==
    [][\A req \in Requests, fu \in BOOLEAN :
         LET k == req.IdempotencyKey IN
         (/\ last'.op = "Lock"
          /\ k # ""
          /\ ~Held(locks, k, now)
          /\ OpLockCall(req, FALSE, FALSE, fu))
            => /\ last'.err = NoErr
               /\ k \in DOMAIN records'
               /\ records'[k].Key = k
               /\ records'[k].Status = StatusPending
               /\ records'[k].Response = Nil
               /\ records'[k].RequestHash =
                      (IF hasher = "none" THEN "" ELSE RequestHash(req))
               /\ records'[k].ExpiresAt = now + TTL
               /\ k \in DOMAIN locks'
               /\ locks'[k] = now + LockTimeout
      ]_vars

C13_Witness ==
    /\ last.op = "Lock" /\ last.err = NoErr /\ ~last.held
    /\ hasher = "body" /\ now > 0
    /\ records[last.key].Status = StatusPending
    /\ records[last.key].RequestHash = Sha256Hex("b2")
    /\ records[last.key].ExpiresAt = now + TTL
    /\ locks[last.key] = now + LockTimeout

\* C14: when TryLock acquires the lock and Set fails, Lock returns the
\* storage error of operation "set" and writes no record. If the Unlock it
\* then calls succeeds the key has no lock and a Lock at once succeeds; if
\* that Unlock fails the lock stays with its expiry now + LockTimeout, and a
\* Lock made once LockTimeout has elapsed succeeds.
C14_LockNotStranded ==
    [][\A req \in Requests, fu \in BOOLEAN :
         LET k == req.IdempotencyKey IN
         (/\ last'.op = "Lock"
          /\ k # ""
          /\ ~Held(locks, k, now)
          /\ OpLockCall(req, FALSE, TRUE, fu))
            => /\ last'.err = NewStorageError("set", IOError)
               /\ records' = records
               /\ ~fu => /\ k \notin DOMAIN locks'
                         /\ LockOp(records', locks', req, now,
                                   FALSE, FALSE, FALSE).err = NoErr
               /\ fu => /\ k \in DOMAIN locks'
                        /\ locks'[k] = now + LockTimeout
                        /\ LockOp(records', locks', req, now,
                                  FALSE, FALSE, FALSE).err = ErrRequestInProgress
                        /\ LockOp(records', locks', req, now + LockTimeout,
                                  FALSE, FALSE, FALSE).err = NoErr
      ]_vars

C14_Witness ==
    /\ last.op = "Lock" /\ ~last.held
    /\ last.err = NewStorageError("set", IOError)
    /\ last.key \notin DOMAIN locks
    /\ last.key \notin DOMAIN records

\* C15: every Store with a non-empty key calls the storage's Unlock before it
\* returns, a failed Set included: unless that Unlock fails, the key's lock
\* is not held when Store returns.
C15_StoreAlwaysUnlocks ==
    [][\A key \in Keys, resp \in Responses, fg \in BOOLEAN, fs \in BOOLEAN :
         (last'.op = "Store" /\ OpStoreCall(key, resp, fg, fs, FALSE))
            => ~Held(locks', key, now')
      ]_vars

\* C16: Store on a key with a live record, with Get, Set and Unlock working,
\* returns nil and writes that record with its RequestHash and CreatedAt
\* kept, Status Completed, the response attached and ExpiresAt = now + TTL;
\* the key's lock entry is gone.
C16_StoreKeepsRecord ==
    [][\A key \in Keys, resp \in Responses :
         (/\ last'.op = "Store"
          /\ key \in DOMAIN records /\ ~Expired(key)
          /\ OpStoreCall(key, resp, FALSE, FALSE, FALSE))
            => /\ last'.err = NoErr
               /\ records'[key].RequestHash = records[key].RequestHash
               /\ records'[key].CreatedAt = records[key].CreatedAt
               /\ records'[key] =
                     [records[key] EXCEPT !.Status    = StatusCompleted,
                                          !.Response  = Some(ToCachedResponse(resp)),
                                          !.ExpiresAt = now + TTL]
               /\ key \notin DOMAIN locks'
      ]_vars

C16_Witness ==
    /\ last.op = "Store" /\ last.err = NoErr /\ last.held
    /\ hasher = "body"
    /\ records[last.key].Status = StatusCompleted
    /\ records[last.key].RequestHash = Sha256Hex("b1")
    /\ records[last.key].CreatedAt < now
    /\ records[last.key].ExpiresAt = now + TTL
    /\ last.key \notin DOMAIN locks

\* C17: when Store's Get fails, finds nothing or finds an expired record,
\* and Set works, Store returns nil and writes a Completed record with the
\* response, an empty RequestHash and CreatedAt = now; a Check that follows,
\* with any request body on the key, returns the cached response and not
\* ErrRequestMismatch.
C17_StoreWithoutRecord ==
    [][\A key \in Keys, resp \in Responses, fg \in BOOLEAN, fu \in BOOLEAN :
         (/\ last'.op = "Store"
          /\ (fg \/ key \notin DOMAIN records \/ Expired(key))
          /\ OpStoreCall(key, resp, fg, FALSE, fu))
            => /\ last'.err = NoErr
               /\ records'[key] =
                     [Key         |-> key,
                      RequestHash |-> "",
                      Status      |-> StatusCompleted,
                      Response    |-> Some(ToCachedResponse(resp)),
                      CreatedAt   |-> now,
                      ExpiresAt   |-> now + TTL]
               /\ \A req \in RequestsOf(key) :
                    LET r == CheckOp(records', req, now', FALSE) IN
                    /\ r.err = NoErr
                    /\ r.resp = Some(ToCachedResponse(resp))
      ]_vars

C17_Witness ==
    /\ last.op = "Store" /\ last.err = NoErr /\ ~last.found
    /\ hasher = "body" /\ now > 0
    /\ records[last.key].RequestHash = ""
    /\ records[last.key].CreatedAt = now
    /\ \A req \in RequestsOf(last.key) :
         CheckOp(records, req, now, FALSE).resp = records[last.key].Response

\* C18: a backend failure of TryLock or Set in Lock, or of Set in Store, comes
\* back as the StorageError of that operation ("trylock", "set"), which is
\* none of nil, ErrRequestInProgress and ErrRequestMismatch; a backend failure
\* of the Unlock that ends a Store whose Set succeeded is swallowed: Store
\* returns nil. Stated of Lock and Store applied to every reachable storage,
\* and of the error every Lock and Store step returned.
C18_ErrorPropagation ==
    /\ \A req \in Requests, fs \in BOOLEAN, fu \in BOOLEAN :
         req.IdempotencyKey # ""
            => LockOp(records, locks, req, now, TRUE, fs, fu).err
                  = "StorageError:trylock"
    /\ \A req \in Requests, fu \in BOOLEAN :
         (req.IdempotencyKey # "" /\ ~Held(locks, req.IdempotencyKey, now))
            => LockOp(records, locks, req, now, FALSE, TRUE, fu).err
                  = "StorageError:set"
    /\ \A key \in Keys, resp \in Responses, fg \in BOOLEAN, fu \in BOOLEAN :
         StoreOp(records, locks, key, resp, now, fg, TRUE, fu).err
            = "StorageError:set"
    /\ \A key \in Keys, resp \in Responses, fg \in BOOLEAN :
         StoreOp(records, locks, key, resp, now, fg, FALSE, TRUE).err = NoErr
    /\ {"StorageError:trylock", "StorageError:set"}
          \cap {NoErr, ErrRequestInProgress, ErrRequestMismatch} = {}
    /\ last.op \in {"Lock", "Store"}
          => (last.err \in {NoErr, ErrRequestInProgress, ErrNoIdempotencyKey}
              \/ last.err \in {"StorageError:trylock", "StorageError:set"})

C18_Witness ==
    /\ last.op = "Store" /\ last.err = NoErr
    /\ last.held /\ Held(locks, last.key, now)
    /\ records[last.key].Status = StatusCompleted

\* C19: on the in-memory backend Manager.Unlock returns nil; on a key whose
\* lock is not held (no entry, or an entry that has expired) it leaves the
\* records as they are and every key locked or unlocked as it was, now and
\* at every later time (an expired entry is dropped from the map); and an
\* Unlock of the same key right after it returns nil and changes nothing.
C19_UnlockIdempotent ==
    [][\A key \in Keys \cup {""} :
         (last'.op = "Unlock" /\ OpUnlockCall(key, FALSE))
            => /\ last'.err = NoErr
               /\ records' = records
               /\ ~Held(locks, key, now)
                    => /\ \A k \in Keys, t \in now..MaxTime + LockTimeout + 1 :
                            Held(locks', k, t) = Held(locks, k, t)
                       /\ \A k \in DOMAIN locks' : locks'[k] = locks[k]
               /\ UnlockOp(locks', key, FALSE) = [locks |-> locks', err |-> NoErr]
      ]_vars

C19_Witness ==
    /\ last.op = "Unlock" /\ ~last.held /\ last.err = NoErr
    /\ last.key \in DOMAIN records /\ ~Expired(last.key)
    /\ last.key \notin DOMAIN locks
    /\ now > 0

\* C20: with an empty key Lock and Store return ErrNoIdempotencyKey and
\* Unlock returns nil, and none of them calls the storage: the result is the
\* same on a backend all of whose calls fail, and records and locks are
\* unchanged. Stated of the three calls applied to every reachable storage,
\* and of the error every such step returned.
C20_EmptyKey ==
    /\ \A req \in Requests, ft \in BOOLEAN, fs \in BOOLEAN, fu \in BOOLEAN :
         req.IdempotencyKey = ""
            => LET r == LockOp(records, locks, req, now, ft, fs, fu) IN
               r.err = ErrNoIdempotencyKey /\ r.records = records /\ r.locks = locks
    /\ \A resp \in Responses, fg \in BOOLEAN, fs \in BOOLEAN, fu \in BOOLEAN :
         LET r == StoreOp(records, locks, "", resp, now, fg, fs, fu) IN
         r.err = ErrNoIdempotencyKey /\ r.records = records /\ r.locks = locks
    /\ \A fu \in BOOLEAN :
         LET r == UnlockOp(locks, "", fu) IN
         r.err = NoErr /\ r.locks = locks
    /\ (last.op \in {"Lock", "Store"} /\ last.key = "")
          => last.err = ErrNoIdempotencyKey
    /\ (last.op = "Unlock" /\ last.key = "") => last.err = NoErr

C20_Witness ==
    /\ last.op = "Store" /\ last.key = "" /\ last.err = ErrNoIdempotencyKey
    /\ records # EmptyMap /\ locks # EmptyMap
    /\ now > 0

\* C21: for a request without a key, with no key strategy or a strategy that
\* yields an empty key, Check returns (nil, nil) and makes no storage read;
\* for a request that carries a key the strategy is not asked and the
\* request's own key is the one looked up.
C21_CheckWithoutKey ==
    last.op = "CheckKey"
        => /\ (/\ last.req.IdempotencyKey = ""
               /\ \/ last.strategy = Nil
                  \/ (last.strategy[1].err = NoErr /\ last.strategy[1].key = ""))
                => /\ last.resp = Nil /\ last.err = NoErr /\ last.hooks = {}
                   /\ last.reads = 0
           /\ last.req.IdempotencyKey # ""
                => /\ ~last.consulted
                   /\ last.key = last.req.IdempotencyKey
                   /\ LET r == CheckOp(records, last.req, now, last.fail) IN
                      last.resp = r.resp /\ last.err = r.err /\ last.hooks = r.hooks

C21_Witness ==
    /\ last.op = "CheckKey"
    /\ last.req.IdempotencyKey = ""
    /\ last.strategy # Nil /\ last.strategy[1] = [key |-> "", err |-> NoErr]
    /\ records # EmptyMap
    /\ last.resp = Nil /\ last.err = NoErr /\ last.reads = 0

\* C22: with no request hasher, no Check on a key returns
\* ErrRequestMismatch, whatever the request's body; and the response of
\* every Store that returns nil, a second request's included, is the one a
\* Check that follows returns, for every body.
C22_NoHasherOverwrites ==
    [][hasher = "none" =>
       /\ last'.op = "Check" => last'.err # ErrRequestMismatch
       /\ \A req \in Requests :
            CheckOp(records', req, now', FALSE).err # ErrRequestMismatch
       /\ (last'.op = "Store" /\ last'.err = NoErr) =>
            \A c \in Callers, resp \in Responses :
               StoreCall(c, resp, FALSE, FALSE, FALSE)
                  => \A req \in RequestsOf(last'.key) :
                       LET r == CheckOp(records', req, now', FALSE) IN
                       r.err = NoErr /\ r.resp = Some(ToCachedResponse(resp))
      ]_vars

\* A second execution on the key, by a request admitted after the first
\* one's Store, has just been stored.
C22_Witness ==
    /\ hasher = "none"
    /\ last.op = "Store" /\ last.err = NoErr
    /\ execs[last.key] = 2
    /\ records[last.key].Status = StatusCompleted
    /\ records[last.key].RequestHash = ""
    /\ \A req \in RequestsOf(last.key) :
         CheckOp(records, req, now, FALSE).resp = records[last.key].Response

\* ------------------------------------------------ claims on NewManager
\* C23: a manager built from a Config whose RequestHasher was left unset
\* validates with the body hasher: once a request with key K and body B has
\* been locked and, its Pending record still live, stored, Check on K with
\* another body returns ErrRequestMismatch (the record TTL being positive).
C23_DefaultValidation ==
    [][\A resp \in Responses :
         (/\ last.op = "Lock"
          /\ last.config[1].RequestHasher = "none"
          /\ last.manager[1].TTL > 0
          /\ last.key \in DOMAIN records /\ ~Expired(last.key)
          /\ CfgStoreCall(resp))
            => \A req \in KeyedRequests :
                 (req.IdempotencyKey = last.key /\ req.Body # last.req.Body)
                    => CheckOp(records', req, now', FALSE).err = ErrRequestMismatch
      ]_vars

\* C26: every record written by Lock or Store of a manager NewManager
\* returned has ExpiresAt strictly after CreatedAt.
C26_ExpiresAfterCreated ==
    \A k \in DOMAIN records : records[k].ExpiresAt > records[k].CreatedAt

\* ------------------------------------------------ the record invariants
\* C24: every stored Pending record has no response; a step that leaves a new
\* or changed Pending record is a Lock that returned nil; and a step that
\* leaves a new or changed record with a response leaves it Completed.
C24_PendingHasNoResponse ==
    /\ \A k \in DOMAIN records :
         records[k].Status = StatusPending => records[k].Response = Nil
    /\ [][\A k \in DOMAIN records' :
            /\ records'[k].Status = StatusPending => records'[k].Response = Nil
            /\ (k \notin DOMAIN records \/ records'[k] # records[k])
                 => /\ records'[k].Status = StatusPending
                         => last'.op = "Lock" /\ last'.err = NoErr
                    /\ records'[k].Response # Nil
                         => records'[k].Status = StatusCompleted
         ]_vars

C24_Witness ==
    /\ last.op = "Lock" /\ last.err = NoErr
    /\ hasher = "none" /\ now = MaxTime
    /\ records[last.key].Status = StatusPending
    /\ records[last.key].Response = Nil
    /\ records[last.key].CreatedAt = now

\* C25: a record read with status Completed has a response, also between
\* the field assignments of a Store in progress: no Check takes the Completed
\* branch (the cache-hit hook) and returns (nil, nil).
C25_CompletedHasResponse ==
    (last.op = "Check" /\ "OnCacheHit" \in last.hooks) => last.resp # Nil

\* C27: after the holder of a successful Lock on a key crashes, the lock
\* self-expires as time advances and a request with that key is eventually
\* admitted again (Lock returns nil after Check returned (nil, nil)); stated
\* for the crashes that leave the key without any caller still working on it
\* and whose record and lock expire within the modelled horizon.
Orphaned(k) ==
    /\ last.op = "Crash" /\ last.key = k
    /\ \A c \in Callers : ~InCS(c, k)
    /\ k \in DOMAIN records /\ records[k].Status = StatusPending
    /\ records[k].ExpiresAt < MaxTime
    /\ k \in DOMAIN locks /\ locks[k] <= MaxTime

C27_NoPermanentBlocking ==
    \A k \in Keys :
        Orphaned(k) ~> (last.op = "Lock" /\ last.key = k /\ last.err = NoErr)

C27_Witness ==
    \E k \in Keys :
        /\ Orphaned(k)
        /\ Held(locks, k, now)
        /\ \A c \in Callers : pc[c] = "idle"
        /\ \A req \in RequestsOf(k) :
              CheckOp(records, req, now, FALSE).err = ErrRequestInProgress

\* C28: the storage lock cycle. TryLock on a key with no live lock returns
\* true; TryLock on a key whose lock is unexpired and unreleased returns false
\* and leaves the lock's expiry as it was; once Unlock has run, TryLock on the
\* key returns true.
C28_LockCycle ==
    [][/\ \A key \in StorageKeys, ttl \in LockTTLs :
            MemTryLockCall(key, ttl) =>
                IF Held(locks, key, now)
                THEN ~last'.ok /\ locks' = locks
                ELSE last'.ok /\ Held(locks', key, now')
       /\ \A key \in StorageKeys :
            MemUnlockCall(key) =>
                \A ttl \in LockTTLs :
                    /\ MemTryLock(locks', key, ttl, now').ok
                    /\ ~MemTryLock(MemTryLock(locks', key, ttl, now').locks,
                                   key, ttl, now').ok
      ]_vars

C28_Witness ==
    /\ last.op = "Unlock" /\ last.held
    /\ last.key \notin DOMAIN locks
    /\ \E other \in StorageKeys \ {last.key} : Held(locks, other, now)

\* C29: a lock stops blocking once its TTL has elapsed, without an Unlock.
\* A lock entry taken at time t with TTL ttl expires at t + ttl; a TryLock
\* that finds the entry returns true when the time is at or after that
\* instant and false when it is strictly before.
C29_LockSelfExpiry ==
    last.op = "TryLock" =>
        /\ last.prev # Nil => (last.ok <=> now >= last.prev[1])
        /\ last.ok => locks[last.key] = now + last.ttl

C29_Witness ==
    /\ last.op = "TryLock" /\ last.ok
    /\ last.prev # Nil /\ last.prev[1] = now
    /\ now > 0

\* C30: Delete removes the record and releases the lock. After Delete(key),
\* Exists(key) is false, Get(key) finds nothing and TryLock(key) succeeds,
\* also when a lock on the key was held; the records and locks of the other
\* keys are as before.
C30_DeleteReleases ==
    [][\A key \in StorageKeys :
          MemDeleteCall(key) =>
              /\ ~MemExists(records', key, now')
              /\ MemGet(records', key, now').record = Nil
              /\ \A ttl \in LockTTLs : MemTryLock(locks', key, ttl, now').ok
              /\ \A other \in StorageKeys \ {key} :
                    /\ (other \in DOMAIN records') = (other \in DOMAIN records)
                    /\ other \in DOMAIN records => records'[other] = records[other]
                    /\ (other \in DOMAIN locks') = (other \in DOMAIN locks)
                    /\ other \in DOMAIN locks => locks'[other] = locks[other]
      ]_vars

C30_Witness ==
    /\ last.op = "Delete" /\ last.held /\ last.existed
    /\ last.key \notin DOMAIN records /\ last.key \notin DOMAIN locks
    /\ \E other \in StorageKeys \ {last.key} :
          /\ MemExists(records, other, now)
          /\ Held(locks, other, now)

\* C31: Set is create-or-replace. Set(record, ttl) succeeds whether the key
\* is absent, present or expired, with no Get before it, and a Get on the
\* key at any later time up to the record's expiry returns the record of
\* that Set.
C31_SetUpserts ==
    [][\A record \in SetRecords(now), ttl \in LockTTLs :
          MemSetCall(record, ttl) =>
              LET stored == IF record.ExpiresAt = ZeroTime
                            THEN [record EXCEPT !.ExpiresAt = now + ttl]
                            ELSE record
              IN  /\ last'.err = NoErr
                  /\ \A t \in now..stored.ExpiresAt :
                        MemGet(records', record.Key, t) =
                            [record |-> Some(stored), err |-> NoErr]
      ]_vars

C31_Witness ==
    /\ last.op = "Set" /\ last.had = "expired" /\ last.err = NoErr
    /\ MemGet(records, last.key, now).record # Nil
    /\ \E other \in StorageKeys \ {last.key} : other \in DOMAIN records

C33_NewManagerDefaults ==
    last.op = "NewManager" =>
        LET c == last.config[1] IN
        IF c.Storage = "nil"
        THEN last.err = ErrStorageNotConfigured /\ last.manager = Nil
        ELSE /\ last.err = NoErr /\ last.manager # Nil
             /\ LET m == last.manager[1] IN
                /\ m.Storage = c.Storage
                /\ m.RequestHasher = c.RequestHasher
                /\ m.TTL = (IF c.TTL = 0 THEN TTL ELSE c.TTL)
                /\ m.LockTimeout = (IF c.LockTimeout = 0 THEN LockTimeout ELSE c.LockTimeout)
                /\ m.AllowedMethods = (IF c.AllowedMethods = Nil
                                       THEN Some(<<"POST", "PUT", "PATCH", "DELETE">>)
                                       ELSE c.AllowedMethods)

C33_Witness ==
    /\ last.op = "NewManager" /\ last.err = NoErr
    /\ last.config[1].TTL = 0 /\ last.config[1].LockTimeout = 0
    /\ last.config[1].AllowedMethods = Nil
    /\ last.manager[1].TTL = TTL /\ last.manager[1].LockTimeout = LockTimeout

\* C34: IsMethodAllowed(method) is true exactly when method is an element
\* of the manager's allow-list, compared as strings; a manager configured
\* with an empty, non-nil allow-list allows no method.
C34_MethodMembership ==
    last.op = "IsMethodAllowed" =>
        LET allowed == last.manager[1].AllowedMethods[1] IN
        /\ last.allowed <=> (\E i \in DOMAIN allowed : allowed[i] = last.method)
        /\ last.config[1].AllowedMethods = Some(<<>>) => ~last.allowed

C34_Witness ==
    /\ last.op = "IsMethodAllowed"
    /\ last.config[1].AllowedMethods = Some(<<>>)
    /\ last.method = "POST" /\ ~last.allowed

C38_CompletionStep ==
    /\ (last.op = "Complete" /\ last.key # "") =>
          /\ last.called = "Store" <=> last.answer.status < 500
          /\ last.called = "Unlock" <=> last.answer.status >= 500
          /\ (last.called = "Store" /\ last.err = NoErr) =>
                /\ last.key \in DOMAIN records
                /\ records[last.key].Status = StatusCompleted
                /\ records[last.key].Response # Nil
                /\ records[last.key].Response[1].StatusCode = last.answer.status
                /\ records[last.key].Response[1].Body = last.answer.body
    /\ \A k \in DOMAIN records :
          records[k].Response # Nil => records[k].Response[1].StatusCode < 500
    /\ ("answer" \in DOMAIN last /\ last.answer.replayed) => last.answer.status < 500

C38_Witness ==
    /\ last.op = "Complete" /\ last.key # ""
    /\ last.called = "Unlock" /\ last.answer.status = 500
    /\ last.key \in DOMAIN records
    /\ records[last.key].Status = StatusPending
    /\ last.key \notin DOMAIN locks

\* ---------------------------------- claims on key strategies and hashers
\* C36: HeaderBased returns the first value of the configured header, and the
\* empty key when the header map is nil or the header is absent. Composite
\* returns the header's first value when it is present and not empty, and
\* otherwise the content fingerprint of method, path and body; it never
\* returns an empty key.
C36_KeyStrategies ==
    last.op = "Generate" =>
        LET req == last.req
            present == /\ req.Headers # Nil
                       /\ HeaderName \in DOMAIN req.Headers[1]
                       /\ req.Headers[1][HeaderName] # <<>>
            first == req.Headers[1][HeaderName][1]
        IN
        /\ last.header.err = NoErr /\ last.composite.err = NoErr
        /\ last.header.key = (IF present THEN first ELSE "")
        /\ last.composite.key =
              (IF present /\ first # "" THEN first
               ELSE Sha256Hex(req.Method \o ":" \o req.Path \o ":" \o req.Body))
        /\ last.composite.key # ""

C36_Witness ==
    /\ last.op = "Generate"
    /\ last.req.Headers = Some(MapPut(EmptyMap, HeaderName, <<"", "k1">>))
    /\ last.header.key = ""
    /\ last.composite.key # "" /\ last.composite.key # "k1"

\* C39: the content fingerprint of key.BodyHash, of the Composite fallback
\* and of hash.FullHasher is the same function of (method, path, body), and
\* two requests that differ in method, path or body get different
\* fingerprints (SHA-256 taken as injective), also when the strings contain
\* the ':' separator.
C39_FingerprintInjective ==
    last.op = "Fingerprint" =>
        /\ last.bodyHash = last.composite /\ last.composite = last.full
        /\ (<<last.a.Method, last.a.Path, last.a.Body>> #
            <<last.b.Method, last.b.Path, last.b.Body>>)
               => last.full[1] # last.full[2]

\* ------------------------------------------------ Check and the storage
\* C37: Check is read-only on storage. On the SQL and GORM backends, as on
\* the others, the records and the locks of all keys are the same after a
\* Check call as before it, also when the record it reads is expired.
C37_CheckReadOnly ==
    (last.op = "Check" /\ "before" \in DOMAIN last) =>
        /\ records = last.before.records
        /\ locks = last.before.locks

\* C40: conflict detection with the body hasher. With hash.BodyHasher
\* configured, once Lock has admitted a request, Check for any request with
\* the same key and a different body (an empty body included) returns
\* ErrRequestMismatch.
C40_BodyHasherConflict ==
    [][(last'.op = "Lock" /\ last'.err = NoErr /\ hasher = "body") =>
          \A req \in Requests, ft \in Fail, fs \in Fail, fu \in Fail :
              OpLockCall(req, ft, fs, fu) =>
                  \A other \in RequestsOf(req.IdempotencyKey) :
                      other.Body # req.Body =>
                          CheckOp(records', other, now', FALSE).err = ErrRequestMismatch
      ]_vars

====
